------------------------------ MODULE LuaActor ------------------------------
(***************************************************************************)
(* The coroutine scheduler of one service, lualib/onbnet.lua.  The worker   *)
(* inside the service calls onbnet.dispatch_message for each message: a     *)
(* request gets a coroutine of its own, a RESPONSE resumes the coroutine    *)
(* that session_id_coroutine keeps for its session.  A coroutine runs until *)
(* it yields "SUSPEND" in call, sleep or wait, or at the end of its         *)
(* function; then the wakeups asked for meanwhile are dispatched, and after *)
(* the message the forked coroutines are run.                               *)
(*                                                                          *)
(* One thread runs all this, so an action is one call of the onbnet API by  *)
(* the running coroutine, or one step of dispatch_message.  The other       *)
(* services and the timer are the environment: requests come at any time,   *)
(* the RESPONSE of a timer comes some time after sleep asked for it, that   *)
(* of a call when the peer answers, if it ever does.  What comes is put on  *)
(* the service's queue; of the scheduler (ServiceDispatch) this module has  *)
(* whether the service is scheduled, since a message that comes while its   *)
(* flag is being cleared stays on the queue.                                *)
(*                                                                          *)
(* An error that a pcall of the function catches matters in one place:      *)
(* suspend_sleep has registered the session when it finds the token in use, *)
(* and the coroutine that goes on is resumed by that session's RESPONSE     *)
(* wherever it has come to (survivors).                                     *)
(***************************************************************************)
EXTENDS Naturals, Sequences, FiniteSets

CONSTANTS
  Coroutines,    \* the coroutines the Lua state can create, in that order
  SharedTokens,  \* tokens of sleep and wait other than the coroutine itself
  MaxSession,    \* bound on the sessions handed out by service::get_session
  MaxRequests,   \* bound on the requests peers send
  MaxWakeups     \* bound on the length of wakeup_queue

\* nil and "BREAK" as values of the tables
CONSTANTS Nil, Break

ASSUME LuaActorAssumption ==
  /\ Coroutines \subseteq Nat /\ Coroutines \cap (1 .. MaxSession) = {}
  /\ MaxSession \in Nat /\ MaxRequests \in Nat /\ MaxWakeups \in Nat
  /\ SharedTokens \cap Coroutines = {}
  /\ {Nil, Break} \cap (Nat \cup SharedTokens) = {}
  /\ Nil # Break

Sessions == 1 .. MaxSession
Requests == 1 .. MaxRequests
Tokens   == Coroutines \cup SharedTokens

VARIABLES
  session_id_coroutine,  \* per session, who its RESPONSE resumes
  session_coroutine_id,  \* per coroutine, the request it must answer
  session_coroutine_address, \* the coroutines with an entry there
  sleep_session,         \* per token, the session of the sleep or wait on it
  wakeup_queue,          \* tokens to wake at the next suspend
  fork_queue,            \* forked coroutines to start after the message
  status,                \* what each coroutine is doing
  held,                  \* the session a suspended coroutine waits with
  running_thread,        \* the running coroutine
  pc,                    \* where dispatch_message is
  survivors,             \* history: those who caught "token duplicative"
  last,                  \* the last session get_session returned
  due,                   \* sessions whose RESPONSE is on its way or queued
  arrived,               \* those queued
  scheduled,             \* is the service: "yes", "no", "closing" between
                         \* Empty() and Invoke_.store(false)
  calls,                 \* sessions of calls the peer has not answered
  requests,              \* the number of requests received
  answered,              \* per request, the RESPONSE or ERROR messages sent
  unresponse             \* requests with a response closure to be used

tables  == <<session_id_coroutine, session_coroutine_id,
             session_coroutine_address, sleep_session>>
queues  == <<wakeup_queue, fork_queue>>
threads == <<status, held, running_thread, pc, survivors>>
mail    == <<last, due, arrived, scheduled, calls>>
answers == <<requests, answered, unresponse>>
vars    == <<tables, queues, threads, mail, answers>>

Status == {"none", "pooled", "ready", "running", "call", "sleep", "wait", "dead",
           "spoiled"}

TypeOK ==
  /\ session_id_coroutine \in [Sessions -> Coroutines \cup {Nil, Break}]
  /\ session_coroutine_id \in [Coroutines -> Requests \cup {0, Nil}]
  /\ session_coroutine_address \subseteq Coroutines
  /\ sleep_session \in [Tokens -> Sessions \cup {Nil}]
  /\ wakeup_queue \in Seq(Tokens)
  /\ fork_queue \in Seq(Coroutines)
  /\ status \in [Coroutines -> Status]
  /\ held \in [Coroutines -> Sessions \cup {Nil}]
  /\ running_thread \in Coroutines \cup {Nil}
  /\ pc \in {"idle", "run", "suspend", "forks"}
  /\ last \in 0 .. MaxSession
  /\ survivors \subseteq Coroutines
  /\ due \subseteq Sessions /\ calls \subseteq Sessions
  /\ arrived \subseteq Sessions
  /\ scheduled \in {"no", "yes", "closing"}
  /\ requests \in 0 .. MaxRequests
  /\ answered \in [Requests -> Nat]
  /\ unresponse \subseteq Requests

Init ==
  /\ session_id_coroutine = [s \in Sessions |-> Nil]
  /\ session_coroutine_id = [c \in Coroutines |-> Nil]
  /\ session_coroutine_address = {}
  /\ sleep_session = [k \in Tokens |-> Nil]
  /\ wakeup_queue = <<>> /\ fork_queue = <<>>
  /\ status = [c \in Coroutines |-> "none"]
  /\ held = [c \in Coroutines |-> Nil]
  /\ running_thread = Nil /\ pc = "idle" /\ survivors = {}
  /\ last = 0 /\ due = {} /\ calls = {}
  /\ arrived = {} /\ scheduled = "no"
  /\ requests = 0 /\ answered = [r \in Requests |-> 0]
  /\ unresponse = {}

-----------------------------------------------------------------------------
(* Pieces of the operations below.                                         *)

\* co_create: a coroutine of co_pool, or a new one, the next in number, when the
\* pool is empty
Pool == {c \in Coroutines : status[c] \in {"pooled", "spoiled"}}

Creatable(c) ==
  \/ c \in Pool
  \/ /\ Pool = {}
     /\ status[c] = "none" /\ \A d \in Coroutines : status[d] = "none" => c <= d

\* what co_create returns: giving a spoiled coroutine its function kills it
Created(c) == IF status[c] = "spoiled" THEN "dead" ELSE "ready"

\* get_session; the counter's bound
NewSession(s) == s = last + 1 /\ s \in Sessions /\ last' = s

\* the token a sleeping coroutine is registered under is cleared when it resumes
ForgetToken(c) ==
  sleep_session' = [k \in Tokens |->
    IF status[c] \in {"sleep", "wait"} /\ sleep_session[k] = held[c]
      THEN Nil ELSE sleep_session[k]]

\* coroutine_resume(co, ...), with value v left for the session s that led to it:
\* the coroutine runs on from its yield, and wait clears the session it waited
\* with
ResumeSessions(c, s, v) ==
  session_id_coroutine' = [x \in Sessions |->
    IF status[c] = "wait" /\ x = held[c] THEN Nil
    ELSE IF x = s THEN v ELSE session_id_coroutine[x]]

\* A dead coroutine cannot be resumed.  One of the pool takes the first value for
\* its function and yields again, with no command; the next resume kills it.
\* Either way the wakeups are not dispatched.
ResumeFails(c) ==
  /\ status[c] \in {"pooled", "spoiled", "dead"}
  /\ status' = IF status[c] = "pooled" THEN [status EXCEPT ![c] = "spoiled"]
                                       ELSE status
  /\ session_coroutine_id' = IF status[c] = "pooled" THEN session_coroutine_id
                               ELSE [session_coroutine_id EXCEPT ![c] = Nil]
  /\ pc' = "forks"
  /\ UNCHANGED <<held, running_thread>>

ResumeRuns(c) ==
  /\ status[c] \notin {"pooled", "spoiled", "dead"}
  /\ status' = [status EXCEPT ![c] = "running"]
  /\ held' = [held EXCEPT ![c] = Nil]
  /\ running_thread' = c
  /\ pc' = "run"
  /\ UNCHANGED session_coroutine_id

Resume(c, s, v) ==
  /\ ResumeSessions(c, s, v)
  /\ ForgetToken(c)
  /\ ResumeFails(c) \/ ResumeRuns(c)
  /\ UNCHANGED <<session_coroutine_address, survivors>>

\* coroutine.yield("SUSPEND") in operation op with session s
Suspend(c, op, s) ==
  /\ status' = [status EXCEPT ![c] = op]
  /\ held' = [held EXCEPT ![c] = s]
  /\ pc' = "suspend"
  /\ UNCHANGED <<running_thread, survivors>>

\* an error nobody catches: suspend closes the coroutine and returns without
\* dispatching the wakeups
Fail(c) ==
  /\ status' = [status EXCEPT ![c] = "dead"]
  /\ session_coroutine_id' = [session_coroutine_id EXCEPT ![c] = Nil]
  /\ pc' = "forks"
  /\ UNCHANGED <<held, running_thread, survivors>>

Running(c) == pc = "run" /\ running_thread = c

-----------------------------------------------------------------------------
(* dispatch_message.                                                       *)

\* the dispatcher takes the next message of a scheduled service
Ready == pc = "idle" /\ scheduled = "yes"

\* a request of a peer, by call or (with session 0) by send; a spoiled coroutine
\* loses it
DispatchRequest(c, plain) ==
  /\ Ready /\ requests < MaxRequests
  /\ Creatable(c)
  /\ requests' = requests + 1
  /\ session_coroutine_address' = session_coroutine_address \cup {c}
  /\ IF Created(c) = "dead"
       THEN Fail(c)
       ELSE /\ session_coroutine_id' =
                 [session_coroutine_id EXCEPT ![c] = IF plain THEN 0 ELSE requests + 1]
            /\ status' = [status EXCEPT ![c] = "running"]
            /\ running_thread' = c
            /\ pc' = "run"
            /\ UNCHANGED <<held, survivors>>
  /\ UNCHANGED <<session_id_coroutine, sleep_session, queues, mail,
                 answered, unresponse>>

\* a RESPONSE whose session was broken by a wakeup, or is unknown
DropResponse(s) ==
  /\ Ready /\ s \in arrived
  /\ session_id_coroutine[s] \in {Nil, Break}
  /\ due' = due \ {s} /\ arrived' = arrived \ {s}
  /\ session_id_coroutine' = [session_id_coroutine EXCEPT ![s] = Nil]
  /\ pc' = "forks"
  /\ UNCHANGED <<session_coroutine_id, session_coroutine_address, sleep_session,
                 queues, status, held, running_thread, survivors, last, scheduled,
                 calls, answers>>

\* mutant: the session is not removed before the coroutine is resumed
DispatchResponse_Keeps(s) ==
  /\ Ready /\ s \in arrived
  /\ session_id_coroutine[s] \in Coroutines
  /\ due' = due \ {s} /\ arrived' = arrived \ {s}
  /\ Resume(session_id_coroutine[s], s, session_id_coroutine[s])
  /\ UNCHANGED <<queues, last, scheduled, calls, answers>>

\* mutant: the wakeups that a failed coroutine has left go before a RESPONSE
DispatchResponse_AfterWakeups(s) ==
  /\ Ready /\ s \in arrived /\ wakeup_queue = <<>>
  /\ session_id_coroutine[s] \in Coroutines
  /\ due' = due \ {s} /\ arrived' = arrived \ {s}
  /\ Resume(session_id_coroutine[s], s, Nil)
  /\ UNCHANGED <<queues, last, scheduled, calls, answers>>

\* a RESPONSE that resumes its coroutine
DispatchResponse(s) ==
  /\ Ready /\ s \in arrived
  /\ session_id_coroutine[s] \in Coroutines
  /\ due' = due \ {s} /\ arrived' = arrived \ {s}
  /\ Resume(session_id_coroutine[s], s, Nil)
  /\ UNCHANGED <<queues, last, scheduled, calls, answers>>

\* mutant: the table gets the session where it should get "BREAK"
DispatchWakeup_Session ==
  /\ pc = "suspend" /\ wakeup_queue # <<>>
  /\ wakeup_queue' = Tail(wakeup_queue)
  /\ LET s == sleep_session[Head(wakeup_queue)]
     IN  IF s = Nil
           THEN UNCHANGED <<tables, threads>>
           ELSE Resume(session_id_coroutine[s], s, s)
  /\ UNCHANGED <<fork_queue, mail, answers>>

\* dispatch_wakeup: one token of wakeup_queue
DispatchWakeup ==
  /\ pc = "suspend" /\ wakeup_queue # <<>>
  /\ wakeup_queue' = Tail(wakeup_queue)
  /\ LET s == sleep_session[Head(wakeup_queue)]
     IN  IF s = Nil
           THEN UNCHANGED <<tables, threads>>
           ELSE Resume(session_id_coroutine[s], s, Break)
  /\ UNCHANGED <<fork_queue, mail, answers>>

\* mutant: the loop may end before the queue is empty
WakeupsDone_Early ==
  /\ pc = "suspend"
  /\ pc' = "forks"
  /\ UNCHANGED <<tables, queues, status, held, running_thread, survivors, mail,
                 answers>>

\* the loop over wakeup_queue ends
WakeupsDone ==
  /\ pc = "suspend" /\ wakeup_queue = <<>>
  /\ pc' = "forks"
  /\ UNCHANGED <<tables, queues, status, held, running_thread, survivors, mail,
                 answers>>

\* the loop over fork_queue, and its end
RunFork ==
  /\ pc = "forks" /\ fork_queue # <<>>
  /\ fork_queue' = Tail(fork_queue)
  /\ LET c == Head(fork_queue)
     IN  IF status[c] = "dead"
           THEN Fail(c)
           ELSE /\ status' = [status EXCEPT ![c] = "running"]
                /\ running_thread' = c
                /\ pc' = "run"
                /\ UNCHANGED <<session_coroutine_id, held, survivors>>
  /\ UNCHANGED <<session_id_coroutine, session_coroutine_address, sleep_session,
                 wakeup_queue, mail, answers>>

ForksDone ==
  /\ pc = "forks" /\ fork_queue = <<>>
  /\ pc' = "idle"
  /\ UNCHANGED <<tables, queues, status, held, running_thread, survivors, mail,
                 answers>>

-----------------------------------------------------------------------------
(* The API, called by the running coroutine.                               *)

\* onbnet.call
Call(c, s) ==
  /\ Running(c) /\ NewSession(s)
  /\ calls' = calls \cup {s}
  /\ session_id_coroutine' = [session_id_coroutine EXCEPT ![s] = c]
  /\ Suspend(c, "call", s)
  /\ UNCHANGED <<session_coroutine_id, session_coroutine_address, sleep_session,
                 queues, due, arrived, scheduled, answers>>

\* mutant: suspend_sleep does not look whether the token is in use
SuspendSleep_NoAssert(c, op, s, k) ==
  /\ session_id_coroutine' = [session_id_coroutine EXCEPT ![s] = c]
  /\ sleep_session' = [sleep_session EXCEPT ![k] = s]
  /\ Suspend(c, op, s)
  /\ UNCHANGED <<session_coroutine_id, session_coroutine_address>>

\* suspend_sleep: the session is registered before the token is checked; when the
\* token is in use the assertion raises an error, which ends the coroutine, or the
\* function catches it and goes on
SuspendSleep(c, op, s, k) ==
  /\ session_id_coroutine' = [session_id_coroutine EXCEPT ![s] = c]
  /\ UNCHANGED session_coroutine_address
  /\ \/ /\ sleep_session[k] # Nil
        /\ Fail(c)
        /\ UNCHANGED sleep_session
     \/ /\ sleep_session[k] # Nil
        /\ survivors' = survivors \cup {c}
        /\ UNCHANGED <<sleep_session, session_coroutine_id, status, held,
                       running_thread, pc>>
     \/ /\ sleep_session[k] = Nil
        /\ sleep_session' = [sleep_session EXCEPT ![k] = s]
        /\ Suspend(c, op, s)
        /\ UNCHANGED session_coroutine_id

\* onbnet.sleep: the timer is started first
Sleep(c, s, k) ==
  /\ Running(c) /\ NewSession(s)
  /\ k \in {c} \cup SharedTokens
  /\ due' = due \cup {s}
  /\ SuspendSleep(c, "sleep", s, k)
  /\ UNCHANGED <<queues, arrived, scheduled, calls, answers>>

\* onbnet.wait
Wait(c, s, k) ==
  /\ Running(c) /\ NewSession(s)
  /\ k \in {c} \cup SharedTokens
  /\ SuspendSleep(c, "wait", s, k)
  /\ UNCHANGED <<queues, due, arrived, scheduled, calls, answers>>

\* onbnet.wakeup, of a token somebody sleeps on; any other call does nothing
Wakeup(c, k) ==
  /\ Running(c)
  /\ sleep_session[k] # Nil
  /\ Len(wakeup_queue) < MaxWakeups
  /\ wakeup_queue' = Append(wakeup_queue, k)
  /\ UNCHANGED <<tables, fork_queue, threads, mail, answers>>

\* onbnet.fork; a coroutine of the pool keeps its session_coroutine_id
Fork(c, d) ==
  /\ Running(c) /\ Creatable(d)
  /\ fork_queue' = Append(fork_queue, d)
  /\ status' = [status EXCEPT ![d] = Created(d)]
  /\ UNCHANGED <<tables, wakeup_queue, held, running_thread, pc, survivors, mail,
                 answers>>

\* onbnet.timeout
Timeout(c, d, s) ==
  /\ Running(c) /\ Creatable(d) /\ NewSession(s)
  /\ due' = due \cup {s}
  /\ session_id_coroutine' = [session_id_coroutine EXCEPT ![s] = d]
  /\ status' = [status EXCEPT ![d] = Created(d)]
  /\ held' = [held EXCEPT ![d] = IF Created(d) = "ready" THEN s ELSE Nil]
  /\ UNCHANGED <<session_coroutine_id, session_coroutine_address, sleep_session,
                 queues, running_thread, pc, survivors, arrived, scheduled, calls,
                 answers>>

\* mutant: ret does not clear session_coroutine_id
Ret_Keeps(c) ==
  /\ Running(c)
  /\ LET r == session_coroutine_id[c]
     IN  answered' = IF r \in Requests THEN [answered EXCEPT ![r] = @ + 1]
                                       ELSE answered
  /\ UNCHANGED <<tables, queues, threads, mail, requests, unresponse>>

\* onbnet.ret; without a session it still sends, with session 0, to the address
\* of the coroutine's last request, and raises an error when there was none
Ret(c) ==
  /\ Running(c)
  /\ LET r == session_coroutine_id[c]
     IN  /\ answered' = IF r \in Requests THEN [answered EXCEPT ![r] = @ + 1]
                                          ELSE answered
         /\ IF r = Nil /\ c \notin session_coroutine_address
              THEN Fail(c)
              ELSE /\ session_coroutine_id' = [session_coroutine_id EXCEPT ![c] = Nil]
                   /\ UNCHANGED threads
  /\ UNCHANGED <<session_id_coroutine, session_coroutine_address, sleep_session,
                 queues, mail, requests, unresponse>>

\* onbnet.response: the closure; its assertion fails when there is no session
Response(c) ==
  /\ Running(c)
  /\ LET r == session_coroutine_id[c]
     IN  /\ unresponse' = unresponse \cup ({r} \cap Requests)
         /\ IF r = Nil
              THEN Fail(c)
              ELSE /\ session_coroutine_id' = [session_coroutine_id EXCEPT ![c] = Nil]
                   /\ UNCHANGED threads
  /\ UNCHANGED <<session_id_coroutine, session_coroutine_address, sleep_session,
                 queues, mail, requests, answered>>

\* the closure is called: onbnet.send looks up proto[PTYPE_RESPONSE] or
\* proto[PTYPE_ERROR], which nobody registered, and indexes nil
Respond(c, r) ==
  /\ Running(c) /\ r \in unresponse
  /\ Fail(c)
  /\ UNCHANGED <<session_id_coroutine, session_coroutine_address, sleep_session,
                 queues, mail, requests, answered, unresponse>>

\* the function returns; the coroutine goes to co_pool and yields "SUSPEND"
Finish(c) ==
  /\ Running(c)
  /\ Suspend(c, "pooled", Nil)
  /\ UNCHANGED <<tables, queues, mail, answers>>

\* the function raises an error
Error(c) ==
  /\ Running(c)
  /\ Fail(c)
  /\ UNCHANGED <<session_id_coroutine, session_coroutine_address, sleep_session,
                 queues, mail, answers>>

-----------------------------------------------------------------------------
(* The messages.                                                           *)

\* a peer answers a call
PeerAnswers(s) ==
  /\ s \in calls
  /\ calls' = calls \ {s}
  /\ due' = due \cup {s}
  /\ UNCHANGED <<tables, queues, threads, last, arrived, scheduled, answers>>

\* service_manager::send puts a RESPONSE on the queue, and schedules the service
\* when its flag is clear.  What comes while a coroutine runs, the service being
\* scheduled, counts when dispatch_message is over: nothing looks at it before.
Arrive(s) ==
  /\ pc = "idle"
  /\ s \in due \ arrived
  /\ arrived' = arrived \cup {s}
  /\ scheduled' = IF scheduled = "no" THEN "yes" ELSE scheduled
  /\ UNCHANGED <<tables, queues, threads, last, due, calls, answers>>

\* so does any other message
OtherArrives ==
  /\ scheduled = "no"
  /\ scheduled' = "yes"
  /\ UNCHANGED <<tables, queues, threads, last, due, arrived, calls, answers>>

\* service::start finds the queue empty, and clears the flag
FindsEmpty ==
  /\ Ready /\ arrived = {}
  /\ scheduled' = "closing"
  /\ UNCHANGED <<tables, queues, threads, last, due, arrived, calls, answers>>

ClearsFlag ==
  /\ scheduled = "closing"
  /\ scheduled' = "no"
  /\ UNCHANGED <<tables, queues, threads, last, due, arrived, calls, answers>>

Dispatch ==
  \/ \E s \in Sessions : DropResponse(s) \/ DispatchResponse(s)
  \/ DispatchWakeup \/ WakeupsDone \/ RunFork \/ ForksDone

Next ==
  \/ \E c \in Coroutines, plain \in BOOLEAN : DispatchRequest(c, plain)
  \/ Dispatch
  \/ \E c \in Coroutines :
       \/ \E s \in Sessions :
            \/ Call(c, s)
            \/ \E k \in Tokens : Sleep(c, s, k) \/ Wait(c, s, k)
            \/ \E d \in Coroutines : Timeout(c, d, s)
       \/ \E k \in Tokens : Wakeup(c, k)
       \/ \E d \in Coroutines : Fork(c, d)
       \/ Ret(c) \/ Response(c) \/ Finish(c) \/ Error(c)
       \/ \E r \in Requests : Respond(c, r)
  \/ \E s \in Sessions : PeerAnswers(s) \/ Arrive(s)
  \/ OtherArrives \/ FindsEmpty \/ ClearsFlag

Spec == Init /\ [][Next]_vars

\* The dispatcher goes on while it has something to do, and a coroutine comes to
\* its end or a yield.  Timers fire and what is sent is queued.  A message that is
\* queued is dispatched if the service is scheduled, and idle, again and again
\* (SF): the queue is first in, first out.  Nothing makes a peer answer, or
\* schedules a service that has a message left over (OtherArrives).
Fairness ==
  /\ WF_vars(Dispatch)
  /\ \A s \in Sessions :
       SF_vars(Arrive(s)) /\ SF_vars(DropResponse(s) \/ DispatchResponse(s))
  /\ WF_vars(\E c \in Coroutines : Finish(c))
  /\ WF_vars(ClearsFlag)

FairSpec == Spec /\ Fairness

-----------------------------------------------------------------------------
(* Properties.                                                             *)

Suspended(c) == status[c] \in {"call", "sleep", "wait"}

\* A session leads to the coroutine that waits with that very session (or that
\* timeout has not started yet, or that is dead)
Awaited(s) ==
  LET c == session_id_coroutine[s]
  IN  c \in Coroutines =>
        \/ (Suspended(c) \/ status[c] = "ready") /\ held[c] = s
        \/ status[c] = "dead"

\* so a RESPONSE never resumes a coroutine in the middle of another operation,
\* except one that has once caught the error of a duplicate token: coroutines are
\* reused, and nothing that happens to those spreads to the others.
ResumesItsWaiter ==
  \A s \in Sessions : session_id_coroutine[s] \notin survivors => Awaited(s)

\* For all of them it is false: the RESPONSE taken next may resume a survivor that
\* waits for something else, or has ended.
AllAwaited == Ready => \A s \in arrived : Awaited(s)

\* A token leads to the coroutine that sleeps with its session, survivors or not:
\* dispatch_wakeup never resumes nil or "BREAK", although it looks at neither.
TokenHasSleeper ==
  \A k \in Tokens :
    sleep_session[k] # Nil =>
      LET c == session_id_coroutine[sleep_session[k]]
      IN  c \in Coroutines /\ status[c] \in {"sleep", "wait"} /\ held[c] = sleep_session[k]

\* Nothing is lost: who sleeps, calls or waits, or was forked or given to timeout,
\* is still reachable from the message, token or queue that will resume it.
NobodyLost ==
  \A c \in Coroutines :
    /\ Suspended(c) => session_id_coroutine[held[c]] = c
    /\ status[c] = "sleep" => held[c] \in due
    /\ status[c] = "call" => held[c] \in due \cup calls
    /\ status[c] \in {"sleep", "wait"} =>
         \E k \in Tokens : sleep_session[k] = held[c]
    /\ status[c] = "ready" =>
         \/ held[c] # Nil /\ session_id_coroutine[held[c]] = c /\ held[c] \in due
         \/ \E i \in DOMAIN fork_queue : fork_queue[i] = c

\* The mark "BREAK" stays only until the RESPONSE of the broken sleep clears it:
\* the table does not grow with the sleeps that were woken.
BreakIsCleared ==
  \A s \in Sessions : session_id_coroutine[s] = Break => s \in due

\* As long as no coroutine fails, no wakeup is left over when the service goes
\* back to wait for a message.
WakeupsDrained ==
  pc = "idle" /\ (\A c \in Coroutines : status[c] # "dead") => wakeup_queue = <<>>

\* The tables lead to all who sleep, call or wait, and to no one else.
SleepersReachable == TokenHasSleeper /\ NobodyLost

\* What the wakeups leave in the tables is cleared again.
TablesDrained == BreakIsCleared /\ WakeupsDrained

\* A request is answered at most once, coroutines being reused or not.
AnsweredOnce == \A r \in Requests : answered[r] <= 1

\* Every sleep ends, by its timer or by a wakeup, whatever fails meanwhile, if the
\* service waits for messages again and again (coroutines may fork one another
\* without end) and gets another message whenever one was left on its queue.
EverySleepEnds ==
  /\ []<>(pc = "idle")
  /\ (scheduled = "no" /\ arrived # {}) ~> scheduled = "yes"
  => \A c \in Coroutines : status[c] = "sleep" ~> status[c] # "sleep"

\* Without that message it may not.
SleepEndsAlone ==
  []<>(pc = "idle") =>
    \A c \in Coroutines : status[c] = "sleep" ~> status[c] # "sleep"

=============================================================================
