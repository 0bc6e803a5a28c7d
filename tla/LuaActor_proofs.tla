-------------------------- MODULE LuaActor_proofs --------------------------
(***************************************************************************)
(* Proofs about LuaActor, for any numbers of coroutines, shared tokens,     *)
(* sessions, requests and wakeups.                                          *)
(***************************************************************************)
EXTENDS LuaActor, TLAPS

-----------------------------------------------------------------------------
(* The inductive invariant.  SleepersReachable and ResumesItsWaiter are     *)
(* about the sessions that somebody waits with; what keeps them is that     *)
(* such a session is held by nobody else, and that the next one is new.     *)
(* Sessions that nobody waits with lead to survivors, whom ResumeWaits      *)
(* lets go on in the middle of anything.                                    *)

\* running_thread is running while dispatch_message is inside it, no other is
OneRuns ==
  \A c \in Coroutines : status[c] = "running" <=> pc = "run" /\ running_thread = c

\* a session is held by those who are suspended, or wait for their timeout
HeldByWaiters ==
  \A c \in Coroutines :
    /\ Suspended(c) => held[c] # Nil
    /\ held[c] # Nil => Suspended(c) \/ status[c] = "ready"

\* a session not yet handed out is nowhere
FreshSession ==
  \A s \in Sessions :
    s > last =>
      /\ session_id_coroutine[s] = Nil
      /\ s \notin due \cup calls
      /\ \A c \in Coroutines : held[c] # s
      /\ \A k \in Tokens : sleep_session[k] # s

\* fork_queue has those that fork made ready, or killed, each once, and none is left
\* when the message is done
ForksReady ==
  /\ \A i \in DOMAIN fork_queue :
       \/ status[fork_queue[i]] = "ready" /\ held[fork_queue[i]] = Nil
       \/ status[fork_queue[i]] = "dead"
  /\ \A i, j \in DOMAIN fork_queue : fork_queue[i] = fork_queue[j] => i = j
  /\ pc = "idle" => fork_queue = <<>>

\* once the loop over wakeup_queue has ended it stays empty, without failures
WakeupsLeft ==
  pc \in {"idle", "forks"} /\ (\A c \in Coroutines : status[c] # "dead")
    => wakeup_queue = <<>>

\* one coroutine at most has a request to answer, and it is not answered yet
OwnerAnswers ==
  /\ \A r \in Requests : r > requests => answered[r] = 0
  /\ \A c \in Coroutines :
       session_coroutine_id[c] \in Requests =>
         /\ session_coroutine_id[c] <= requests
         /\ answered[session_coroutine_id[c]] = 0
         /\ \A d \in Coroutines :
              session_coroutine_id[d] = session_coroutine_id[c] => d = c

Known == ResumesItsWaiter /\ TokenHasSleeper /\ NobodyLost /\ BreakIsCleared

Waits == OneRuns /\ HeldByWaiters /\ FreshSession /\ ForksReady /\ Known

IInv == TypeOK /\ Waits /\ WakeupsLeft /\ OwnerAnswers /\ AnsweredOnce

-----------------------------------------------------------------------------
(* Typing.                                                                 *)

\* A session that has been handed out is one.
LEMMA NewSessionType ==
  ASSUME NEW s \in Sessions, NewSession(s)
  PROVE  last' \in 0 .. MaxSession
  BY LuaActorAssumption DEF NewSession, Sessions

\* coroutine_resume leaves the tables well typed.
LEMMA ResumeType ==
  ASSUME TypeOK, NEW c \in Coroutines, NEW s \in Sessions, NEW v \in {Nil, Break},
         Resume(c, s, v)
  PROVE  /\ session_id_coroutine' \in [Sessions -> Coroutines \cup {Nil, Break}]
         /\ sleep_session' \in [Tokens -> Sessions \cup {Nil}]
         /\ session_coroutine_id' \in [Coroutines -> Requests \cup {0, Nil}]
         /\ session_coroutine_address' \subseteq Coroutines
         /\ status' \in [Coroutines -> Status]
         /\ held' \in [Coroutines -> Sessions \cup {Nil}]
         /\ running_thread' \in Coroutines \cup {Nil}
         /\ pc' \in {"idle", "run", "suspend", "forks"}
         /\ survivors' = survivors
  BY DEF Resume, ResumeSessions, ResumeFails, ResumeRuns, ForgetToken, TypeOK, Status

\* TokenHasSleeper is why dispatch_wakeup resumes a coroutine, and not nil or "BREAK".
LEMMA TypeStep == TypeOK /\ TokenHasSleeper /\ [Next]_vars => TypeOK'
<1> USE LuaActorAssumption DEF TypeOK, Status, tables, queues, threads, mail, answers
<1>1. ASSUME TypeOK, NEW c \in Coroutines, NEW plain \in BOOLEAN, DispatchRequest(c, plain)
      PROVE  TypeOK'
  <2>1. /\ session_coroutine_id' \in [Coroutines -> Requests \cup {0, Nil}]
        /\ requests' \in 0 .. MaxRequests
        /\ session_coroutine_address' \subseteq Coroutines
        /\ UNCHANGED <<session_id_coroutine, sleep_session, queues, mail, answered,
                       unresponse, held, survivors>>
    BY <1>1 DEF DispatchRequest, Requests, Fail
  <2>2. /\ status' \in [Coroutines -> Status]
        /\ running_thread' \in Coroutines \cup {Nil}
        /\ pc' \in {"idle", "run", "suspend", "forks"}
    BY <1>1 DEF DispatchRequest, Fail
  <2> QED BY <1>1, <2>1, <2>2
<1>2. ASSUME TypeOK, NEW s \in Sessions, DropResponse(s)
      PROVE  TypeOK'
  BY <1>2 DEF DropResponse
<1>3. ASSUME TypeOK, NEW s \in Sessions, DispatchResponse(s)
      PROVE  TypeOK'
  BY <1>3, ResumeType DEF DispatchResponse
<1>4. ASSUME TypeOK, TokenHasSleeper, DispatchWakeup
      PROVE  TypeOK'
  <2>1. /\ Head(wakeup_queue) \in Tokens
        /\ wakeup_queue' \in Seq(Tokens)
    BY <1>4 DEF DispatchWakeup
  <2>2. CASE sleep_session[Head(wakeup_queue)] = Nil
    BY <1>4, <2>1, <2>2 DEF DispatchWakeup
  <2>3. CASE sleep_session[Head(wakeup_queue)] # Nil
    <3> DEFINE s == sleep_session[Head(wakeup_queue)]
    <3>1. /\ s \in Sessions /\ session_id_coroutine[s] \in Coroutines
          /\ Resume(session_id_coroutine[s], s, Break)
          /\ UNCHANGED <<fork_queue, mail, answers>>
      BY <1>4, <2>1, <2>3 DEF DispatchWakeup, TokenHasSleeper
    <3> HIDE DEF s
    <3> QED BY <1>4, <2>1, <3>1, ResumeType
  <2> QED BY <2>2, <2>3
<1>5. ASSUME TypeOK, WakeupsDone \/ ForksDone
      PROVE  TypeOK'
  BY <1>5 DEF WakeupsDone, ForksDone
<1>6. ASSUME TypeOK, RunFork
      PROVE  TypeOK'
  <2>1. Head(fork_queue) \in Coroutines /\ fork_queue' \in Seq(Coroutines)
    BY <1>6 DEF RunFork
  <2>2. CASE status[Head(fork_queue)] = "dead"
    BY <1>6, <2>1, <2>2 DEF RunFork, Fail
  <2>3. CASE status[Head(fork_queue)] # "dead"
    BY <1>6, <2>1, <2>3 DEF RunFork
  <2> QED BY <2>2, <2>3
<1>7. ASSUME TypeOK, NEW c \in Coroutines, NEW s \in Sessions, Call(c, s)
      PROVE  TypeOK'
  BY <1>7, NewSessionType DEF Call, Suspend
<1>8. ASSUME TypeOK, NEW c \in Coroutines, NEW s \in Sessions, NEW k \in Tokens,
             Sleep(c, s, k) \/ Wait(c, s, k)
      PROVE  TypeOK'
  <2>1. PICK op \in {"sleep", "wait"} : SuspendSleep(c, op, s, k)
    BY <1>8 DEF Sleep, Wait
  <2>2. /\ last' \in 0 .. MaxSession
        /\ due' \subseteq due \cup {s}
        /\ UNCHANGED <<queues, arrived, scheduled, calls, answers>>
    BY <1>8, NewSessionType DEF Sleep, Wait
  <2>3. CASE sleep_session[k] # Nil
    BY <1>8, <2>1, <2>2, <2>3 DEF SuspendSleep, Fail
  <2>4. CASE sleep_session[k] = Nil
    <3>1. /\ status' \in [Coroutines -> Status]
          /\ held' \in [Coroutines -> Sessions \cup {Nil}]
          /\ pc' = "suspend" /\ UNCHANGED <<running_thread, survivors>>
      BY <1>8, <2>1, <2>4 DEF SuspendSleep, Suspend
    <3>2. /\ session_id_coroutine' \in [Sessions -> Coroutines \cup {Nil, Break}]
          /\ sleep_session' \in [Tokens -> Sessions \cup {Nil}]
          /\ UNCHANGED <<session_coroutine_id, session_coroutine_address>>
      BY <1>8, <2>1, <2>4 DEF SuspendSleep
    <3> QED BY <1>8, <2>2, <3>1, <3>2
  <2> QED BY <2>3, <2>4
<1>9. ASSUME TypeOK, NEW c \in Coroutines, NEW s \in Sessions, NEW d \in Coroutines,
             Timeout(c, d, s)
      PROVE  TypeOK'
  BY <1>9, NewSessionType DEF Timeout, Created
<1>10. ASSUME TypeOK, NEW c \in Coroutines, NEW k \in Tokens, Wakeup(c, k)
      PROVE  TypeOK'
  BY <1>10 DEF Wakeup
<1>11. ASSUME TypeOK, NEW c \in Coroutines, NEW d \in Coroutines, Fork(c, d)
      PROVE  TypeOK'
  BY <1>11 DEF Fork, Created
<1>12. ASSUME TypeOK, NEW c \in Coroutines, Ret(c) \/ Response(c)
       PROVE  TypeOK'
  <2>1. /\ session_coroutine_id' = [session_coroutine_id EXCEPT ![c] = Nil]
        /\ Fail(c) \/ UNCHANGED threads
    BY <1>12 DEF Ret, Response, Fail
  <2>2. UNCHANGED <<session_id_coroutine, session_coroutine_address, sleep_session,
                    queues, mail, requests>>
    BY <1>12 DEF Ret, Response
  <2>3. answered' \in [Requests -> Nat] /\ unresponse' \subseteq Requests
    <3>1. CASE Ret(c)
      BY <1>12, <3>1 DEF Ret
    <3>2. CASE Response(c)
      BY <1>12, <3>2 DEF Response
    <3> QED BY <1>12, <3>1, <3>2
  <2> QED BY <1>12, <2>1, <2>2, <2>3 DEF Fail
<1>13. ASSUME TypeOK, NEW c \in Coroutines,
              Finish(c) \/ Error(c) \/ \E r \in Requests : Respond(c, r)
      PROVE  TypeOK'
  BY <1>13 DEF Respond, Finish, Error, Suspend, Fail
<1>14. ASSUME TypeOK, NEW s \in Sessions, PeerAnswers(s)
      PROVE  TypeOK'
  BY <1>14 DEF PeerAnswers
<1>15. ASSUME TypeOK,
              (\E s \in Sessions : Arrive(s)) \/ OtherArrives \/ FindsEmpty \/ ClearsFlag
       PROVE  TypeOK'
  BY <1>15 DEF Arrive, OtherArrives, FindsEmpty, ClearsFlag
<1>16. ASSUME TypeOK, UNCHANGED vars
       PROVE  TypeOK'
  BY <1>16 DEF vars
<1> HIDE LuaActorAssumption DEF TypeOK, Status, tables, queues, threads, mail, answers
<1> QED
  BY <1>1, <1>2, <1>3, <1>4, <1>5, <1>6, <1>7, <1>8, <1>9, <1>10, <1>11, <1>12, <1>13,
     <1>14, <1>16, <1>15
  DEF Next, Dispatch

-----------------------------------------------------------------------------
(* Who waits, and what leads to him.                                       *)

\* nil and "BREAK" are no sessions and no coroutines.
LEMMA NilIsNone ==
  /\ Nil \notin Sessions /\ Nil \notin Coroutines
  /\ Break \notin Sessions /\ Break \notin Coroutines /\ Nil # Break
<1>1. Nil \notin Nat /\ Break \notin Nat /\ Nil # Break
  BY LuaActorAssumption
<1>2. Coroutines \subseteq Nat /\ Sessions \subseteq Nat
  BY LuaActorAssumption DEF Sessions
<1> QED BY <1>1, <1>2

\* Who holds a session is the one that its RESPONSE resumes: nobody shares one.
LEMMA HolderOf ==
  ASSUME TypeOK, Waits, NEW c \in Coroutines, held[c] # Nil
  PROVE  /\ held[c] \in Sessions
         /\ session_id_coroutine[held[c]] = c
  BY NilIsNone DEF TypeOK, Waits, HeldByWaiters, Known, NobodyLost, ForksReady

\* A coroutine that is done, or fails, leaves what the others wait for as it is.
LEMMA StopWaits ==
  ASSUME TypeOK, Waits, NEW c \in Coroutines, Running(c),
         NEW x \in {"pooled", "dead"}, status' = [status EXCEPT ![c] = x],
         held' = [held EXCEPT ![c] = Nil] \/ held' = held,
         pc' \in {"suspend", "forks"},
         UNCHANGED <<session_id_coroutine, sleep_session, queues, mail, survivors>>
  PROVE  Waits'
<1> USE NilIsNone DEF queues, mail
<1>1. status[c] = "running" /\ held[c] = Nil
  BY DEF Running, TypeOK, Waits, OneRuns, HeldByWaiters, Suspended
<1>2. held' = held
  BY <1>1 DEF TypeOK
<1>4. OneRuns'
  BY <1>1 DEF TypeOK, Waits, OneRuns, Running
<1>5. HeldByWaiters'
  BY <1>1, <1>2 DEF TypeOK, Waits, HeldByWaiters, Suspended
<1>6. FreshSession'
  BY <1>1, <1>2 DEF TypeOK, Waits, FreshSession, Suspended
<1>7. ForksReady'
  BY <1>1, <1>2 DEF TypeOK, Waits, ForksReady, Suspended
<1>8. ResumesItsWaiter'
  BY <1>1, <1>2 DEF TypeOK, Waits, Known, ResumesItsWaiter, Awaited, Suspended
<1>9. TokenHasSleeper'
  BY <1>1, <1>2 DEF TypeOK, Waits, Known, TokenHasSleeper, Suspended
<1>10. NobodyLost'
  BY <1>1, <1>2 DEF TypeOK, Waits, Known, NobodyLost, Suspended
<1>11. BreakIsCleared'
  BY <1>1, <1>2 DEF TypeOK, Waits, Known, BreakIsCleared
<1> QED BY <1>4, <1>5, <1>6, <1>7, <1>8, <1>9, <1>10, <1>11 DEF Waits, Known

\* get_session returns a session that is in no table, held by nobody and not due.
LEMMA NewSessionIsNew ==
  ASSUME TypeOK, FreshSession, NEW s \in Sessions, NewSession(s)
  PROVE  /\ last \in Nat /\ last' = s /\ s = last + 1 /\ s > last
         /\ session_id_coroutine[s] = Nil /\ s \notin due \cup calls
         /\ \A d \in Coroutines : held[d] # s
         /\ \A k \in Tokens : sleep_session[k] # s
<1>1. last \in Nat /\ last' = s /\ s = last + 1
  BY LuaActorAssumption DEF NewSession, TypeOK
<1>2. s > last
  BY <1>1
<1> QED BY <1>1, <1>2 DEF FreshSession

\* coroutine_resume of the one a session leads to, by its RESPONSE or by a wakeup:
\* unless he has caught the error of a duplicate token he waits with that session
\* and no other; and no one else loses what he waits for.
LEMMA ResumeWaits ==
  ASSUME TypeOK, Waits, NEW c \in Coroutines, NEW s \in Sessions, NEW v \in {Nil, Break},
         session_id_coroutine[s] = c, Resume(c, s, v),
         UNCHANGED <<fork_queue, last, calls>>,
         \/ pc = "idle" /\ v = Nil /\ due' = due \ {s}
         \/ /\ pc = "suspend" /\ v = Break /\ due' = due
            /\ status[c] \in {"sleep", "wait"} /\ held[c] = s
  PROVE  Waits'
<1> USE NilIsNone
<1>1. /\ \A x \in Sessions :
           session_id_coroutine'[x] = IF status[c] = "wait" /\ x = held[c] THEN Nil
                                      ELSE IF x = s THEN v ELSE session_id_coroutine[x]
      /\ \A k \in Tokens :
           sleep_session'[k] = IF status[c] \in {"sleep", "wait"} /\ sleep_session[k] = held[c]
                                 THEN Nil ELSE sleep_session[k]
      /\ survivors' = survivors
  BY DEF Resume, ResumeSessions, ForgetToken
<1>2. /\ \A d \in Coroutines \ {c} : status'[d] = status[d] /\ held'[d] = held[d]
      /\ held'[c] = Nil
      /\ \/ /\ status[c] \in {"pooled", "spoiled", "dead"}
            /\ status'[c] = IF status[c] = "pooled" THEN "spoiled" ELSE status[c]
            /\ pc' = "forks"
         \/ /\ status[c] \notin {"pooled", "spoiled", "dead"} /\ status'[c] = "running"
            /\ pc' = "run" /\ running_thread' = c
  BY DEF Resume, ResumeFails, ResumeRuns, TypeOK, Waits, HeldByWaiters, Suspended
<1>3. c \notin survivors => Awaited(s)
  BY DEF Waits, Known, ResumesItsWaiter
<1>4. \A d \in Coroutines \ {c} :
        held[d] # Nil => held[d] \in Sessions \ {s} /\ held[d] # held[c]
  BY HolderOf
<1>5. OneRuns'
  BY <1>2 DEF TypeOK, Waits, OneRuns
<1>6. HeldByWaiters'
  BY <1>2 DEF TypeOK, Waits, HeldByWaiters, Suspended
<1>7. ForksReady'
  BY <1>2 DEF TypeOK, Waits, ForksReady, HeldByWaiters, Suspended
<1>8. FreshSession'
  <2>1. /\ \A d \in Coroutines : held'[d] \in {Nil, held[d]}
        /\ \A k \in Tokens : sleep_session'[k] \in {Nil, sleep_session[k]}
        /\ \A x \in Sessions \ {s} : session_id_coroutine'[x] \in {Nil, session_id_coroutine[x]}
    BY <1>1, <1>2
  <2>2. ~ (s > last) /\ due' \subseteq due
    BY DEF Waits, FreshSession
  <2> QED BY <2>1, <2>2 DEF Waits, FreshSession
<1>9. ResumesItsWaiter'
  <2> SUFFICES ASSUME NEW x \in Sessions, session_id_coroutine'[x] \in Coroutines \ survivors
               PROVE  Awaited(x)'
    BY <1>1 DEF ResumesItsWaiter, Awaited
  <2>1. x # s /\ session_id_coroutine'[x] = session_id_coroutine[x] /\ Awaited(x)
    BY <1>1 DEF Waits, Known, ResumesItsWaiter
  <2>2. session_id_coroutine[x] = c => status[c] = "dead"
    BY <1>3, <2>1 DEF Awaited
  <2> QED BY <1>2, <2>1, <2>2 DEF Awaited, Suspended
<1>10. TokenHasSleeper'
  <2> SUFFICES ASSUME NEW k \in Tokens, sleep_session'[k] # Nil
               PROVE  TokenHasSleeper!(k)'
    BY DEF TokenHasSleeper
  <2>1. sleep_session'[k] = sleep_session[k] /\ sleep_session[k] \in Sessions
        /\ TokenHasSleeper!(k)
    BY <1>1 DEF Waits, Known, TokenHasSleeper, TypeOK
  <2> DEFINE d == session_id_coroutine[sleep_session[k]]
  <2>2. d \in Coroutines /\ status[d] \in {"sleep", "wait"} /\ held[d] = sleep_session[k]
    BY <2>1
  <2>3. d # c
    BY <1>1, <2>1, <2>2
  <2>4. session_id_coroutine'[sleep_session[k]] = d
    BY <1>1, <1>4, <2>1, <2>2, <2>3
  <2> QED BY <1>2, <2>1, <2>2, <2>3, <2>4
<1>11. NobodyLost'
  <2>1. SUFFICES ASSUME NEW d \in Coroutines, d # c
                 PROVE  NobodyLost!(d)'
    BY <1>2 DEF NobodyLost, Suspended
  <2>2. NobodyLost!(d) /\ held'[d] = held[d] /\ status'[d] = status[d]
    BY <1>2, <2>1 DEF Waits, Known, NobodyLost
  <2>3. CASE held[d] = Nil
    BY <2>2, <2>3 DEF Waits, HeldByWaiters, Suspended
  <2>4. CASE held[d] # Nil
    <3>1. held[d] \in Sessions /\ held[d] # s /\ held[d] # held[c]
      BY <1>4, <2>1, <2>4
    <3>2. session_id_coroutine'[held[d]] = session_id_coroutine[held[d]]
      BY <1>1, <3>1
    <3>3. \A k \in Tokens : sleep_session[k] = held[d] => sleep_session'[k] = held[d]
      BY <1>1, <3>1
    <3> QED BY <2>2, <3>1, <3>2, <3>3 DEF Suspended
  <2> QED BY <2>3, <2>4
<1>12. BreakIsCleared'
  <2>1. status[c] = "sleep" => held[c] \in due
    BY DEF Waits, Known, NobodyLost
  <2>2. session_id_coroutine'[s] = Break => s \in due'
    BY <1>1, <2>1
  <2>3. \A x \in Sessions \ {s} : session_id_coroutine'[x] = Break => x \in due'
    BY <1>1 DEF Waits, Known, BreakIsCleared
  <2> QED BY <2>2, <2>3 DEF BreakIsCleared
<1> QED
  BY <1>5, <1>6, <1>7, <1>8, <1>9, <1>10, <1>11, <1>12 DEF Waits, Known

\* call, sleep and wait suspend with a new session, the latter two on a free token.
LEMMA SuspendWaits ==
  ASSUME TypeOK, Waits, NEW c \in Coroutines, NEW s \in Sessions,
         NEW op \in {"call", "sleep", "wait"},
         Running(c), NewSession(s), Suspend(c, op, s),
         session_id_coroutine' = [session_id_coroutine EXCEPT ![s] = c],
         due' = IF op = "sleep" THEN due \cup {s} ELSE due,
         calls' = IF op = "call" THEN calls \cup {s} ELSE calls,
         IF op = "call"
           THEN UNCHANGED sleep_session
           ELSE \E k \in Tokens : /\ sleep_session[k] = Nil
                                  /\ sleep_session' = [sleep_session EXCEPT ![k] = s],
         UNCHANGED fork_queue
  PROVE  Waits'
<1> USE NilIsNone
<1>1. status[c] = "running" /\ held[c] = Nil /\ pc = "run" /\ running_thread = c
  BY DEF Running, TypeOK, Waits, OneRuns, HeldByWaiters, Suspended
<1>2. /\ last \in Nat /\ last' = s /\ s = last + 1
      /\ session_id_coroutine[s] = Nil /\ s \notin due \cup calls
      /\ \A d \in Coroutines : held[d] # s
      /\ \A k \in Tokens : sleep_session[k] # s
  BY NewSessionIsNew DEF Waits
<1>3. /\ status' = [status EXCEPT ![c] = op]
      /\ held' = [held EXCEPT ![c] = s] /\ pc' = "suspend"
      /\ UNCHANGED <<running_thread, survivors>>
  BY DEF Suspend
<1>4. /\ \A k \in Tokens : sleep_session'[k] \in {sleep_session[k], s}
      /\ \A k \in Tokens : sleep_session[k] # Nil => sleep_session'[k] = sleep_session[k]
      /\ op # "call" => \E k \in Tokens : sleep_session'[k] = s
      /\ op = "call" => sleep_session' = sleep_session
  BY DEF TypeOK
<1>5. OneRuns'
  BY <1>1, <1>3 DEF TypeOK, Waits, OneRuns
<1>6. HeldByWaiters'
  BY <1>1, <1>3 DEF TypeOK, Waits, HeldByWaiters, Suspended
<1>7. FreshSession'
  BY <1>1, <1>2, <1>3, <1>4 DEF TypeOK, Waits, FreshSession, Sessions
<1>8. ForksReady'
  BY <1>1, <1>3 DEF TypeOK, Waits, ForksReady, Suspended
<1>9. ResumesItsWaiter'
  BY <1>1, <1>2, <1>3 DEF TypeOK, Waits, Known, ResumesItsWaiter, Awaited, Suspended
<1>10. TokenHasSleeper'
  BY <1>1, <1>2, <1>3, <1>4 DEF TypeOK, Waits, Known, TokenHasSleeper, Suspended
<1>11. NobodyLost'
  <2>1. SUFFICES ASSUME NEW d \in Coroutines, d # c
                 PROVE  NobodyLost!(d)'
    BY <1>3, <1>4 DEF NobodyLost, TypeOK, Suspended
  <2>2. NobodyLost!(d) /\ held[d] # s /\ held'[d] = held[d] /\ status'[d] = status[d]
    BY <1>2, <1>3, <2>1 DEF Waits, Known, NobodyLost, TypeOK
  <2>3. \A k \in Tokens :
          sleep_session[k] = held[d] /\ held[d] # Nil => sleep_session'[k] = held'[d]
    BY <1>4, <2>2
  <2>4. Suspended(d) \/ held[d] # Nil
          => session_id_coroutine'[held[d]] = session_id_coroutine[held[d]]
    BY <2>2 DEF TypeOK
  <2> QED BY <2>1, <2>2, <2>3, <2>4 DEF Suspended, Waits, HeldByWaiters
<1>12. BreakIsCleared'
  BY <1>1, <1>2, <1>3 DEF TypeOK, Waits, Known, BreakIsCleared
<1> QED
  BY <1>5, <1>6, <1>7, <1>8, <1>9, <1>10, <1>11, <1>12 DEF Waits, Known

\* sleep and wait on a token in use: the coroutine dies with its session registered.
LEMMA DieWaits ==
  ASSUME TypeOK, Waits, NEW c \in Coroutines, NEW s \in Sessions,
         Running(c), NewSession(s), Fail(c),
         session_id_coroutine' = [session_id_coroutine EXCEPT ![s] = c],
         due' \in {due, due \cup {s}},
         UNCHANGED <<sleep_session, fork_queue, calls>>
  PROVE  Waits'
<1> USE NilIsNone
<1>1. status[c] = "running" /\ held[c] = Nil /\ pc = "run" /\ running_thread = c
  BY DEF Running, TypeOK, Waits, OneRuns, HeldByWaiters, Suspended
<1>2. /\ last \in Nat /\ last' = s /\ s = last + 1
      /\ session_id_coroutine[s] = Nil /\ s \notin due \cup calls
      /\ \A d \in Coroutines : held[d] # s
      /\ \A k \in Tokens : sleep_session[k] # s
  BY NewSessionIsNew DEF Waits
<1>3. /\ status' = [status EXCEPT ![c] = "dead"]
      /\ pc' = "forks" /\ UNCHANGED <<held, running_thread, survivors>>
  BY DEF Fail
<1>5. OneRuns'
  BY <1>1, <1>3 DEF TypeOK, Waits, OneRuns
<1>6. HeldByWaiters'
  BY <1>1, <1>3 DEF TypeOK, Waits, HeldByWaiters, Suspended
<1>7. FreshSession'
  BY <1>1, <1>2, <1>3 DEF TypeOK, Waits, FreshSession, Sessions
<1>8. ForksReady'
  BY <1>1, <1>3 DEF TypeOK, Waits, ForksReady, Suspended
<1>9. ResumesItsWaiter'
  BY <1>1, <1>2, <1>3 DEF TypeOK, Waits, Known, ResumesItsWaiter, Awaited, Suspended
<1>10. TokenHasSleeper'
  BY <1>1, <1>2, <1>3 DEF TypeOK, Waits, Known, TokenHasSleeper, Suspended
<1>11. NobodyLost'
  BY <1>1, <1>2, <1>3 DEF TypeOK, Waits, Known, NobodyLost, Suspended
<1>12. BreakIsCleared'
  BY <1>1, <1>2, <1>3 DEF TypeOK, Waits, Known, BreakIsCleared
<1> QED
  BY <1>5, <1>6, <1>7, <1>8, <1>9, <1>10, <1>11, <1>12 DEF Waits, Known

\* The same, when the function catches the error: the session leads to a coroutine
\* that goes on.
LEMMA CaughtWaits ==
  ASSUME TypeOK, Waits, NEW c \in Coroutines, NEW s \in Sessions,
         Running(c), NewSession(s),
         session_id_coroutine' = [session_id_coroutine EXCEPT ![s] = c],
         due' \in {due, due \cup {s}},
         survivors' = survivors \cup {c},
         UNCHANGED <<sleep_session, fork_queue, calls, status, held, running_thread, pc>>
  PROVE  Waits'
<1> USE NilIsNone
<1>1. held[c] = Nil /\ pc = "run"
  BY DEF Running, TypeOK, Waits, OneRuns, HeldByWaiters, Suspended
<1>2. /\ last \in Nat /\ last' = s /\ s = last + 1
      /\ session_id_coroutine[s] = Nil /\ s \notin due \cup calls
      /\ \A d \in Coroutines : held[d] # s
      /\ \A k \in Tokens : sleep_session[k] # s
  BY NewSessionIsNew DEF Waits
<1>3. OneRuns' /\ HeldByWaiters' /\ ForksReady'
  BY DEF Waits, OneRuns, HeldByWaiters, ForksReady, Suspended
<1>4. FreshSession'
  BY <1>2 DEF TypeOK, Waits, FreshSession, Sessions
<1>5. ResumesItsWaiter'
  BY DEF TypeOK, Waits, Known, ResumesItsWaiter, Awaited, Suspended
<1>6. TokenHasSleeper'
  BY <1>2 DEF TypeOK, Waits, Known, TokenHasSleeper, Suspended
<1>7. NobodyLost'
  BY <1>1, <1>2 DEF TypeOK, Waits, Known, NobodyLost, Suspended
<1>8. BreakIsCleared'
  BY <1>2 DEF TypeOK, Waits, Known, BreakIsCleared
<1> QED BY <1>3, <1>4, <1>5, <1>6, <1>7, <1>8 DEF Waits, Known

\* timeout registers the coroutine it has made, before it has run.
LEMMA TimeoutWaits ==
  ASSUME TypeOK, Waits, NEW c \in Coroutines, NEW s \in Sessions, NEW d \in Coroutines,
         Timeout(c, d, s)
  PROVE  Waits'
<1> USE NilIsNone
<1> DEFINE x == Created(d)
<1>1. status[d] \in {"pooled", "spoiled", "none"} /\ held[d] = Nil /\ x \in {"ready", "dead"}
  BY DEF Timeout, Creatable, Created, Pool, Waits, HeldByWaiters, Suspended
<1>2. /\ last \in Nat /\ last' = s /\ s = last + 1
      /\ session_id_coroutine[s] = Nil /\ s \notin due \cup calls
      /\ \A e \in Coroutines : held[e] # s
      /\ \A k \in Tokens : sleep_session[k] # s
  BY NewSessionIsNew DEF Timeout, Waits
<1>3. /\ session_id_coroutine' = [session_id_coroutine EXCEPT ![s] = d]
      /\ status' = [status EXCEPT ![d] = x]
      /\ held' = [held EXCEPT ![d] = IF x = "ready" THEN s ELSE Nil] /\ due' = due \cup {s}
      /\ UNCHANGED <<sleep_session, fork_queue, running_thread, pc, calls, survivors>>
  BY DEF Timeout, queues
<1> HIDE DEF x
<1>5. OneRuns'
  BY <1>1, <1>3 DEF TypeOK, Waits, OneRuns
<1>6. HeldByWaiters'
  BY <1>1, <1>3 DEF TypeOK, Waits, HeldByWaiters, Suspended
<1>7. FreshSession'
  BY <1>1, <1>2, <1>3 DEF TypeOK, Waits, FreshSession, Sessions
<1>8. ForksReady'
  BY <1>1, <1>3 DEF TypeOK, Waits, ForksReady, Suspended
<1>9. ResumesItsWaiter'
  BY <1>1, <1>2, <1>3 DEF TypeOK, Waits, Known, ResumesItsWaiter, Awaited, Suspended
<1>10. TokenHasSleeper'
  BY <1>1, <1>2, <1>3 DEF TypeOK, Waits, Known, TokenHasSleeper, Suspended
<1>11. NobodyLost'
  BY <1>1, <1>2, <1>3 DEF TypeOK, Waits, Known, NobodyLost, Suspended
<1>12. BreakIsCleared'
  BY <1>1, <1>2, <1>3 DEF TypeOK, Waits, Known, BreakIsCleared
<1> QED
  BY <1>5, <1>6, <1>7, <1>8, <1>9, <1>10, <1>11, <1>12 DEF Waits, Known

\* fork makes one that is not yet in fork_queue.
LEMMA ForkWaits ==
  ASSUME TypeOK, Waits, NEW c \in Coroutines, NEW d \in Coroutines, Fork(c, d)
  PROVE  Waits'
<1> USE NilIsNone
<1> DEFINE x == Created(d)
<1>1. status[d] \in {"pooled", "spoiled", "none"} /\ held[d] = Nil /\ x \in {"ready", "dead"}
      /\ pc = "run"
  BY DEF Fork, Running, Creatable, Created, Pool, Waits, HeldByWaiters, Suspended
<1>2. /\ fork_queue' \in Seq(Coroutines)
      /\ DOMAIN fork_queue' = DOMAIN fork_queue \cup {Len(fork_queue) + 1}
      /\ \A i \in DOMAIN fork_queue : fork_queue'[i] = fork_queue[i]
      /\ fork_queue'[Len(fork_queue) + 1] = d
  BY DEF Fork, TypeOK
<1>3. /\ status' = [status EXCEPT ![d] = x]
      /\ UNCHANGED <<session_id_coroutine, sleep_session, held, running_thread, pc, mail,
                     survivors>>
  BY DEF Fork, tables
<1> HIDE DEF x
<1> USE DEF mail
<1>4. \A i \in DOMAIN fork_queue : fork_queue[i] # d
  BY <1>1 DEF Waits, ForksReady
<1>5. OneRuns'
  BY <1>1, <1>3 DEF TypeOK, Waits, OneRuns
<1>6. HeldByWaiters'
  BY <1>1, <1>3 DEF TypeOK, Waits, HeldByWaiters, Suspended
<1>7. FreshSession'
  BY <1>1, <1>3 DEF TypeOK, Waits, FreshSession, Sessions
<1>8. ForksReady'
  BY <1>1, <1>2, <1>3, <1>4 DEF TypeOK, Waits, ForksReady, Suspended
<1>9. ResumesItsWaiter'
  BY <1>1, <1>3 DEF TypeOK, Waits, Known, ResumesItsWaiter, Awaited, Suspended
<1>10. TokenHasSleeper'
  BY <1>1, <1>3 DEF TypeOK, Waits, Known, TokenHasSleeper, Suspended
<1>11. NobodyLost'
  BY <1>1, <1>2, <1>3 DEF TypeOK, Waits, Known, NobodyLost, Suspended
<1>12. BreakIsCleared'
  BY <1>1, <1>3 DEF TypeOK, Waits, Known, BreakIsCleared
<1> QED
  BY <1>5, <1>6, <1>7, <1>8, <1>9, <1>10, <1>11, <1>12 DEF Waits, Known

\* The loop over fork_queue starts one, who was there once.
LEMMA RunForkWaits ==
  ASSUME TypeOK, Waits, RunFork
  PROVE  Waits'
<1> USE NilIsNone
<1> DEFINE c == fork_queue[1]
<1>0. c \in Coroutines /\ status[c] \in {"ready", "dead"} /\ held[c] = Nil
  <2>1. 1 \in DOMAIN fork_queue
    BY DEF RunFork, TypeOK
  <2>2. fork_queue[1] \in Coroutines
    BY <2>1 DEF TypeOK
  <2>3. \/ status[c] = "ready" /\ held[c] = Nil
        \/ status[c] = "dead"
    BY <2>1 DEF Waits, ForksReady
  <2> QED BY <2>2, <2>3 DEF Waits, HeldByWaiters, Suspended
<1>1. /\ c \in Coroutines /\ status[c] \in {"ready", "dead"} /\ held[c] = Nil
      /\ fork_queue' \in Seq(Coroutines)
      /\ \A i \in DOMAIN fork_queue' :
           i + 1 \in DOMAIN fork_queue /\ fork_queue'[i] = fork_queue[i + 1]
      /\ \A i \in DOMAIN fork_queue :
           i # 1 => i - 1 \in DOMAIN fork_queue' /\ fork_queue'[i - 1] = fork_queue[i]
  BY <1>0 DEF RunFork, TypeOK
<1>2. \A i \in DOMAIN fork_queue' : fork_queue'[i] # c
  <2>1. \A i \in DOMAIN fork_queue' : i + 1 # 1
    BY <1>1
  <2>2. 1 \in DOMAIN fork_queue
    BY DEF RunFork, TypeOK
  <2> QED BY <1>1, <2>1, <2>2 DEF Waits, ForksReady
<1>3. /\ \/ /\ status[c] = "ready"
            /\ status' = [status EXCEPT ![c] = "running"]
            /\ running_thread' = c /\ pc' = "run"
         \/ /\ status[c] = "dead" /\ UNCHANGED <<status, running_thread>>
            /\ pc' = "forks"
      /\ pc = "forks"
      /\ UNCHANGED <<session_id_coroutine, sleep_session, held, mail, survivors>>
  BY <1>1 DEF RunFork, Fail, tables, TypeOK
<1> HIDE DEF c
<1> USE DEF mail
<1>5. OneRuns'
  BY <1>1, <1>3 DEF TypeOK, Waits, OneRuns
<1>6. HeldByWaiters'
  BY <1>1, <1>3 DEF TypeOK, Waits, HeldByWaiters, Suspended
<1>7. FreshSession'
  BY <1>1, <1>3 DEF TypeOK, Waits, FreshSession, Sessions
<1>8. ForksReady'
  <2>1. \A i \in DOMAIN fork_queue' : i \in Nat
    BY <1>1
  <2>2. \A i, j \in DOMAIN fork_queue' : fork_queue'[i] = fork_queue'[j] => i + 1 = j + 1
    BY <1>1 DEF Waits, ForksReady
  <2>3. \A i, j \in DOMAIN fork_queue' : fork_queue'[i] = fork_queue'[j] => i = j
    BY <2>1, <2>2
  <2> QED BY <1>1, <1>2, <1>3, <2>3 DEF TypeOK, Waits, ForksReady
<1>9. ResumesItsWaiter'
  BY <1>1, <1>3 DEF TypeOK, Waits, Known, ResumesItsWaiter, Awaited, Suspended
<1>10. TokenHasSleeper'
  BY <1>1, <1>3 DEF TypeOK, Waits, Known, TokenHasSleeper, Suspended
<1>11. NobodyLost'
  <2> SUFFICES ASSUME NEW d \in Coroutines
               PROVE  NobodyLost!(d)'
    BY DEF NobodyLost
  <2>1. NobodyLost!(d) /\ held'[d] = held[d] /\ (d # c => status'[d] = status[d])
    BY <1>1, <1>3 DEF TypeOK, Waits, Known, NobodyLost
  <2>2. d = c => status'[d] \in {"running", "dead"}
    BY <1>1, <1>3 DEF TypeOK
  <2>3. d # c /\ (\E i \in DOMAIN fork_queue : fork_queue[i] = d)
          => \E i \in DOMAIN fork_queue' : fork_queue'[i] = d
    BY <1>1 DEF c
  <2> QED BY <1>3, <2>1, <2>2, <2>3 DEF Suspended
<1>12. BreakIsCleared'
  BY <1>1, <1>3 DEF TypeOK, Waits, Known, BreakIsCleared
<1> QED
  BY <1>5, <1>6, <1>7, <1>8, <1>9, <1>10, <1>11, <1>12 DEF Waits, Known

\* The RESPONSE of a broken session is waited for by nobody.
LEMMA DropWaits ==
  ASSUME TypeOK, Waits, NEW s \in Sessions, DropResponse(s)
  PROVE  Waits'
<1> USE NilIsNone
<1>1. /\ session_id_coroutine[s] \in {Nil, Break}
      /\ session_id_coroutine' = [session_id_coroutine EXCEPT ![s] = Nil]
      /\ due' = due \ {s} /\ pc = "idle" /\ pc' = "forks"
      /\ UNCHANGED <<sleep_session, fork_queue, status, held, running_thread, last, calls,
                     survivors>>
  BY DEF DropResponse, Ready, queues
<1>2. \A d \in Coroutines : held[d] # s
  BY <1>1, HolderOf
<1>3. OneRuns' /\ HeldByWaiters' /\ ForksReady'
  BY <1>1 DEF Waits, OneRuns, HeldByWaiters, ForksReady, Suspended
<1>4. FreshSession'
  BY <1>1 DEF TypeOK, Waits, FreshSession
<1>5. ResumesItsWaiter'
  BY <1>1 DEF TypeOK, Waits, Known, ResumesItsWaiter, Awaited, Suspended
<1>6. TokenHasSleeper'
  BY <1>1 DEF TypeOK, Waits, Known, TokenHasSleeper, Suspended
<1>7. NobodyLost'
  BY <1>1, <1>2 DEF TypeOK, Waits, Known, NobodyLost, Suspended
<1>8. BreakIsCleared'
  BY <1>1 DEF TypeOK, Waits, Known, BreakIsCleared
<1> QED BY <1>3, <1>4, <1>5, <1>6, <1>7, <1>8 DEF Waits, Known

\* A request starts a coroutine, of the pool or new.
LEMMA RequestWaits ==
  ASSUME TypeOK, Waits, NEW c \in Coroutines, NEW plain \in BOOLEAN,
         DispatchRequest(c, plain)
  PROVE  Waits'
<1> USE NilIsNone DEF queues, mail
<1>1. pc = "idle" /\ status[c] \in {"pooled", "spoiled", "none"}
  BY DEF DispatchRequest, Ready, Creatable, Pool
<1>2. held[c] = Nil
  BY <1>1 DEF Waits, HeldByWaiters, Suspended
<1>3. /\ \/ /\ status' = [status EXCEPT ![c] = "running"]
            /\ running_thread' = c /\ pc' = "run"
         \/ /\ status' = [status EXCEPT ![c] = "dead"]
            /\ running_thread' = running_thread /\ pc' = "forks"
      /\ UNCHANGED <<session_id_coroutine, sleep_session, queues, held, mail, survivors>>
  BY DEF DispatchRequest, Fail
<1>4. OneRuns'
  BY <1>1, <1>3 DEF TypeOK, Waits, OneRuns
<1>5. HeldByWaiters'
  BY <1>1, <1>2, <1>3 DEF TypeOK, Waits, HeldByWaiters, Suspended
<1>6. FreshSession'
  BY <1>3 DEF TypeOK, Waits, FreshSession
<1>7. ForksReady'
  BY <1>1, <1>3 DEF TypeOK, Waits, ForksReady
<1>8. ResumesItsWaiter'
  BY <1>1, <1>3 DEF TypeOK, Waits, Known, ResumesItsWaiter, Awaited, Suspended
<1>9. TokenHasSleeper'
  BY <1>1, <1>3 DEF TypeOK, Waits, Known, TokenHasSleeper
<1>10. NobodyLost'
  BY <1>1, <1>3 DEF TypeOK, Waits, Known, NobodyLost, Suspended
<1>11. BreakIsCleared'
  BY <1>3 DEF Waits, Known, BreakIsCleared
<1> QED
  BY <1>4, <1>5, <1>6, <1>7, <1>8, <1>9, <1>10, <1>11 DEF Waits, Known

\* What stays as it is when nobody is suspended, resumed or started: pc changes
\* between the steps of dispatch_message, and the answers of peers arrive.
LEMMA StillWaits ==
  ASSUME TypeOK, Waits,
         \/ pc' = pc
         \/ pc # "run" /\ pc' # "run" /\ (pc' = "idle" => fork_queue = <<>>),
         due \subseteq due', due' \cup calls' = due \cup calls,
         UNCHANGED <<session_id_coroutine, sleep_session, fork_queue, status, held,
                     running_thread, survivors, last>>
  PROVE  Waits'
<1>1. OneRuns'
  BY DEF Waits, OneRuns
<1>2. HeldByWaiters' /\ ForksReady'
  BY DEF Waits, HeldByWaiters, ForksReady, Suspended
<1>3. FreshSession'
  BY DEF Waits, FreshSession
<1>4. ResumesItsWaiter' /\ TokenHasSleeper'
  BY DEF Waits, Known, ResumesItsWaiter, Awaited, TokenHasSleeper, Suspended
<1>5. NobodyLost'
  BY DEF Waits, Known, NobodyLost, Suspended
<1>6. BreakIsCleared'
  BY DEF Waits, Known, BreakIsCleared
<1> QED BY <1>1, <1>2, <1>3, <1>4, <1>5, <1>6 DEF Waits, Known

\* What waits and what leads to it, action by action.
LEMMA WaitsStep == TypeOK /\ Waits /\ [Next]_vars => Waits'
<1>1. ASSUME TypeOK, Waits, NEW s \in Sessions, DispatchResponse(s)
      PROVE  Waits'
  BY <1>1, ResumeWaits DEF DispatchResponse, Ready, queues
<1>2. ASSUME TypeOK, Waits, DispatchWakeup
      PROVE  Waits'
  <2> DEFINE s == sleep_session[Head(wakeup_queue)]
  <2>1. Head(wakeup_queue) \in Tokens
    BY <1>2 DEF DispatchWakeup, TypeOK
  <2>2. CASE s = Nil
    BY <1>2, <2>2, StillWaits DEF DispatchWakeup, tables, threads, mail
  <2>3. CASE s # Nil
    <3>1. /\ s \in Sessions /\ session_id_coroutine[s] \in Coroutines
          /\ status[session_id_coroutine[s]] \in {"sleep", "wait"}
          /\ held[session_id_coroutine[s]] = s
      BY <1>2, <2>1, <2>3 DEF TypeOK, Waits, Known, TokenHasSleeper
    <3>2. /\ Resume(session_id_coroutine[s], s, Break) /\ pc = "suspend"
          /\ UNCHANGED <<fork_queue, last, calls, due>>
      BY <1>2, <2>3 DEF DispatchWakeup, mail
    <3> QED BY <1>2, <3>1, <3>2, ResumeWaits
  <2> QED BY <2>2, <2>3
<1>3. ASSUME TypeOK, Waits, WakeupsDone \/ ForksDone
      PROVE  Waits'
  BY <1>3, StillWaits DEF WakeupsDone, ForksDone, tables, queues, mail
<1>4. ASSUME TypeOK, Waits, NEW c \in Coroutines, NEW s \in Sessions, Call(c, s)
      PROVE  Waits'
  <2>1. /\ Running(c) /\ NewSession(s) /\ Suspend(c, "call", s)
        /\ session_id_coroutine' = [session_id_coroutine EXCEPT ![s] = c]
        /\ calls' = calls \cup {s}
        /\ UNCHANGED <<sleep_session, fork_queue, due>>
    BY <1>4 DEF Call, queues
  <2> QED BY <1>4, <2>1, SuspendWaits
<1>5. ASSUME TypeOK, Waits, NEW c \in Coroutines, NEW s \in Sessions, NEW k \in Tokens,
             Sleep(c, s, k) \/ Wait(c, s, k)
      PROVE  Waits'
  <2>1. PICK op \in {"sleep", "wait"} :
          /\ SuspendSleep(c, op, s, k)
          /\ due' = IF op = "sleep" THEN due \cup {s} ELSE due
    BY <1>5 DEF Sleep, Wait
  <2>2. /\ Running(c) /\ NewSession(s) /\ UNCHANGED <<fork_queue, calls>>
        /\ session_id_coroutine' = [session_id_coroutine EXCEPT ![s] = c]
    BY <1>5, <2>1 DEF Sleep, Wait, SuspendSleep, queues
  <2>3. CASE sleep_session[k] = Nil
    <3>1. /\ Suspend(c, op, s)
          /\ sleep_session' = [sleep_session EXCEPT ![k] = s]
      BY <2>1, <2>3 DEF SuspendSleep
    <3> QED BY <1>5, <2>1, <2>2, <2>3, <3>1, SuspendWaits
  <2>4. CASE sleep_session[k] # Nil
    <3>1. /\ sleep_session' = sleep_session
          /\ \/ Fail(c)
             \/ /\ survivors' = survivors \cup {c}
                /\ UNCHANGED <<status, held, running_thread, pc>>
      BY <2>1, <2>4 DEF SuspendSleep
    <3>2. CASE Fail(c)
      BY <1>5, <2>1, <2>2, <3>1, <3>2, DieWaits
    <3>3. CASE survivors' = survivors \cup {c} /\ UNCHANGED <<status, held, running_thread, pc>>
      BY <1>5, <2>1, <2>2, <3>1, <3>3, CaughtWaits
    <3> QED BY <3>1, <3>2, <3>3
  <2> QED BY <2>3, <2>4
<1>6. ASSUME TypeOK, Waits, NEW c \in Coroutines, NEW k \in Tokens, Wakeup(c, k)
      PROVE  Waits'
  BY <1>6, StillWaits DEF Wakeup, tables, threads, mail
<1>7. ASSUME TypeOK, Waits, NEW c \in Coroutines, Ret(c) \/ Response(c)
      PROVE  Waits'
  <2>1. /\ Running(c)
        /\ Fail(c) \/ UNCHANGED threads
        /\ UNCHANGED <<session_id_coroutine, sleep_session, queues, mail>>
    BY <1>7 DEF Ret, Response
  <2>2. CASE Fail(c)
    BY <1>7, <2>1, <2>2, StopWaits DEF Fail
  <2>3. CASE UNCHANGED threads
    BY <1>7, <2>1, <2>3, StillWaits DEF threads, queues, mail
  <2> QED BY <2>1, <2>2, <2>3
<1>8. ASSUME TypeOK, Waits, NEW c \in Coroutines,
             Error(c) \/ \E r \in Requests : Respond(c, r)
      PROVE  Waits'
  BY <1>8, StopWaits DEF Error, Respond, Fail
<1>9. ASSUME TypeOK, Waits, NEW c \in Coroutines, Finish(c)
      PROVE  Waits'
  BY <1>9, StopWaits DEF Finish, Suspend, tables
<1>10. ASSUME TypeOK, Waits, NEW s \in Sessions, PeerAnswers(s)
       PROVE  Waits'
  <2>1. due \subseteq due' /\ due' \cup calls' = due \cup calls
    BY <1>10 DEF PeerAnswers
  <2> QED BY <1>10, <2>1, StillWaits DEF PeerAnswers, tables, queues, threads
<1>11. ASSUME TypeOK, Waits, UNCHANGED vars
       PROVE  Waits'
  BY <1>11, StillWaits DEF vars, tables, queues, threads, mail
<1>12. ASSUME TypeOK, Waits,
              (\E s \in Sessions : Arrive(s)) \/ OtherArrives \/ FindsEmpty \/ ClearsFlag
       PROVE  Waits'
  BY <1>12, StillWaits
  DEF Arrive, OtherArrives, FindsEmpty, ClearsFlag, tables, queues, threads
<1> QED
  BY <1>1, <1>2, <1>3, <1>4, <1>5, <1>6, <1>7, <1>8, <1>9, <1>10, <1>11, <1>12, RequestWaits,
     TimeoutWaits, ForkWaits, RunForkWaits, DropWaits
  DEF Next, Dispatch

-----------------------------------------------------------------------------
(* The wakeups and the answers.                                            *)


\* Only the end of the loop over wakeup_queue and a failure lead on to fork_queue.
LEMMA WakeupsStep == TypeOK /\ Waits /\ WakeupsLeft /\ [Next]_vars => WakeupsLeft'
<1> USE DEF WakeupsLeft
<1>1. ASSUME TypeOK, NEW c \in Coroutines,
             (\E s \in Sessions : Call(c, s)) \/ Finish(c)
      PROVE  WakeupsLeft'
  BY <1>1 DEF Call, Finish, Suspend
<1>2. ASSUME WakeupsLeft, NEW s \in Sessions, DropResponse(s)
      PROVE  WakeupsLeft'
  BY <1>2 DEF DropResponse, Ready, queues
<1>3. ASSUME TypeOK, WakeupsLeft, NEW s \in Sessions, DispatchResponse(s)
      PROVE  WakeupsLeft'
  <2>1. CASE ResumeRuns(session_id_coroutine[s])
    BY <2>1 DEF ResumeRuns
  <2>2. CASE ResumeFails(session_id_coroutine[s])
    BY <1>3, <2>2 DEF DispatchResponse, Ready, ResumeFails, queues, TypeOK
  <2> QED BY <1>3, <2>1, <2>2 DEF DispatchResponse, Resume
<1>4. ASSUME TypeOK, Waits, DispatchWakeup
      PROVE  WakeupsLeft'
  <2> DEFINE s == sleep_session[Head(wakeup_queue)]
  <2>1. CASE s = Nil
    BY <1>4, <2>1 DEF DispatchWakeup, threads
  <2>2. CASE s # Nil
    <3>1. Head(wakeup_queue) \in Tokens
      BY <1>4 DEF DispatchWakeup, TypeOK
    <3>2. status[session_id_coroutine[s]] \in {"sleep", "wait"}
      BY <1>4, <2>2, <3>1 DEF Waits, Known, TokenHasSleeper
    <3> QED BY <1>4, <2>2, <3>2 DEF DispatchWakeup, Resume, ResumeFails, ResumeRuns
  <2> QED BY <2>1, <2>2
<1>5. ASSUME TypeOK, NEW c \in Coroutines, Fail(c)
      PROVE  WakeupsLeft'
  BY <1>5 DEF Fail, TypeOK
<1>6. ASSUME TypeOK, WakeupsLeft, WakeupsDone \/ ForksDone \/ RunFork
      PROVE  WakeupsLeft'
  <2>1. CASE RunFork
    <3>1. Head(fork_queue) \in Coroutines
      BY <2>1, <1>6 DEF RunFork, TypeOK
    <3> QED BY <1>6, <1>5, <2>1, <3>1 DEF RunFork
  <2> QED BY <1>6, <2>1 DEF WakeupsDone, ForksDone, queues
<1>7. ASSUME TypeOK, NEW c \in Coroutines, NEW plain \in BOOLEAN, DispatchRequest(c, plain)
       PROVE  WakeupsLeft'
  BY <1>5, <1>7 DEF DispatchRequest
<1>8. ASSUME WakeupsLeft,
              (\E s \in Sessions : Arrive(s)) \/ OtherArrives \/ FindsEmpty \/ ClearsFlag
       PROVE  WakeupsLeft'
  BY <1>8 DEF Arrive, OtherArrives, FindsEmpty, ClearsFlag, queues, threads
<1>9. ASSUME TypeOK, NEW c \in Coroutines, NEW s \in Sessions, NEW k \in Tokens,
             Sleep(c, s, k) \/ Wait(c, s, k)
      PROVE  WakeupsLeft'
  BY <1>5, <1>9 DEF Sleep, Wait, SuspendSleep, Suspend, Running
<1>10. ASSUME TypeOK, NEW c \in Coroutines, Running(c), pc' = pc
      PROVE  WakeupsLeft'
  BY <1>10 DEF Running
<1>11. ASSUME TypeOK, NEW c \in Coroutines,
             \/ \E k \in Tokens : Wakeup(c, k)
             \/ \E d \in Coroutines : Fork(c, d) \/ \E s \in Sessions : Timeout(c, d, s)
      PROVE  WakeupsLeft'
  BY <1>10, <1>11 DEF Wakeup, Fork, Timeout, threads
<1>12. ASSUME TypeOK, NEW c \in Coroutines,
              Ret(c) \/ Response(c) \/ Error(c) \/ \E r \in Requests : Respond(c, r)
       PROVE  WakeupsLeft'
  BY <1>5, <1>10, <1>12 DEF Ret, Response, Error, Respond, threads
<1>13. ASSUME WakeupsLeft, (\E s \in Sessions : PeerAnswers(s)) \/ UNCHANGED vars
       PROVE  WakeupsLeft'
  BY <1>13 DEF PeerAnswers, vars, queues, threads
<1> HIDE DEF WakeupsLeft
<1> QED
  BY <1>1, <1>2, <1>3, <1>4, <1>6, <1>9, <1>11, <1>12, <1>13, <1>7, <1>8
  DEF Next, Dispatch

\* A request belongs to one coroutine, which gives it up with its answer or with the
\* closure that will answer.
LEMMA AnswersStep ==
  TypeOK /\ TokenHasSleeper /\ OwnerAnswers /\ AnsweredOnce /\ [Next]_vars
    => OwnerAnswers' /\ AnsweredOnce'
<1> DEFINE Answers == OwnerAnswers /\ AnsweredOnce
<1> USE DEF OwnerAnswers, AnsweredOnce
<1>1. ASSUME TypeOK, Answers, NEW c \in Coroutines, NEW plain \in BOOLEAN,
             DispatchRequest(c, plain)
      PROVE  Answers'
  <2>1. /\ requests \in Nat /\ requests' = requests + 1 /\ answered' = answered
        /\ \A d \in Coroutines \ {c} : session_coroutine_id'[d] = session_coroutine_id[d]
        /\ session_coroutine_id'[c] \in {0, requests', Nil}
    BY <1>1, LuaActorAssumption DEF DispatchRequest, Fail, TypeOK
  <2>2. Nil \notin Requests /\ \A r \in Requests : r \in Nat /\ r # 0
    BY LuaActorAssumption DEF Requests
  <2>3. \A d \in Coroutines \ {c} :
          session_coroutine_id'[d] \in Requests => session_coroutine_id'[d] <= requests
    BY <1>1, <2>1
  <2>4. \A r \in Requests : r > requests' => answered'[r] = 0
    BY <1>1, <2>1, <2>2
  <2>5. session_coroutine_id'[c] \in Requests
          => /\ session_coroutine_id'[c] = requests' /\ answered'[requests'] = 0
             /\ \A d \in Coroutines \ {c} : session_coroutine_id'[d] # requests'
    BY <1>1, <2>1, <2>2, <2>3
  <2> QED BY <1>1, <2>1, <2>2, <2>3, <2>4, <2>5
<1>2. ASSUME TypeOK, Answers, NEW c \in Coroutines,
             session_coroutine_id' = [session_coroutine_id EXCEPT ![c] = Nil],
             UNCHANGED requests,
             \/ UNCHANGED answered
             \/ /\ session_coroutine_id[c] \in Requests
                /\ answered' = [answered EXCEPT ![session_coroutine_id[c]] = @ + 1]
      PROVE  Answers'
  <2>1. /\ session_coroutine_id'[c] = Nil /\ Nil \notin Requests
        /\ \A d \in Coroutines \ {c} : session_coroutine_id'[d] = session_coroutine_id[d]
    BY <1>2, LuaActorAssumption DEF TypeOK, Requests
  <2>2. CASE UNCHANGED answered
    BY <1>2, <2>1, <2>2
  <2>3. CASE ~ UNCHANGED answered
    <3>1. PICK r \in Requests :
            /\ r = session_coroutine_id[c] /\ answered[r] = 0 /\ r <= requests
            /\ answered' = [answered EXCEPT ![r] = @ + 1]
      BY <1>2, <2>3
    <3>2. /\ answered'[r] = 1
          /\ \A q \in Requests \ {r} : answered'[q] = answered[q]
      BY <1>2, <3>1 DEF TypeOK
    <3>3. /\ requests \in Nat /\ Requests \subseteq Nat
          /\ \A d \in Coroutines \ {c} : session_coroutine_id[d] # r
      BY <1>2, <3>1, LuaActorAssumption DEF TypeOK, Requests
    <3>4. AnsweredOnce'
      BY <1>2, <3>2
    <3>5. \A q \in Requests : q > requests => q # r
      BY <3>1, <3>3
    <3>6. \A q \in Requests : q > requests' => answered'[q] = 0
      BY <1>2, <3>2, <3>5
    <3>7. ASSUME NEW d \in Coroutines, session_coroutine_id'[d] \in Requests
          PROVE  /\ session_coroutine_id'[d] <= requests'
                 /\ answered'[session_coroutine_id'[d]] = 0
                 /\ \A e \in Coroutines :
                      session_coroutine_id'[e] = session_coroutine_id'[d] => e = d
      <4>1. d # c /\ session_coroutine_id'[d] = session_coroutine_id[d]
        BY <2>1, <3>7
      <4>2. /\ session_coroutine_id[d] \in Requests \ {r}
            /\ session_coroutine_id[d] <= requests /\ answered[session_coroutine_id[d]] = 0
        BY <1>2, <3>3, <3>7, <4>1
      <4>3. ASSUME NEW e \in Coroutines, session_coroutine_id'[e] = session_coroutine_id'[d]
            PROVE  e = d
        <5>1. e # c /\ session_coroutine_id[e] = session_coroutine_id[d]
          BY <2>1, <3>7, <4>1, <4>3
        <5> QED BY <1>2, <4>2, <5>1
      <4> QED BY <1>2, <3>2, <4>1, <4>2, <4>3
    <3> QED BY <3>4, <3>6, <3>7
  <2> QED BY <2>2, <2>3
<1>3. ASSUME TypeOK, Answers, UNCHANGED <<session_coroutine_id, requests, answered>>
      PROVE  Answers'
  BY <1>3
<1>4. ASSUME TypeOK, Answers, NEW c \in Coroutines, Ret(c)
      PROVE  Answers'
  <2>1. /\ session_coroutine_id' = [session_coroutine_id EXCEPT ![c] = Nil]
        /\ UNCHANGED requests
        /\ \/ UNCHANGED answered
           \/ /\ session_coroutine_id[c] \in Requests
              /\ answered' = [answered EXCEPT ![session_coroutine_id[c]] = @ + 1]
    BY <1>4 DEF Ret, Fail
  <2> QED BY <1>2, <1>4, <2>1
<1>5. ASSUME TypeOK, Answers, NEW c \in Coroutines, Fail(c), UNCHANGED <<requests, answered>>
      PROVE  Answers'
  BY <1>2, <1>5 DEF Fail
<1>6. ASSUME TypeOK, Answers, NEW c \in Coroutines,
             Response(c) \/ Error(c) \/ \E r \in Requests : Respond(c, r)
      PROVE  Answers'
  BY <1>2, <1>5, <1>6 DEF Response, Error, Respond, answers
<1>7. ASSUME TypeOK, Answers, NEW c \in Coroutines, NEW s \in Sessions, NEW k \in Tokens,
             Sleep(c, s, k) \/ Wait(c, s, k)
      PROVE  Answers'
  BY <1>3, <1>5, <1>7 DEF Sleep, Wait, SuspendSleep, answers
<1>8. ASSUME TypeOK, Answers, NEW c \in Coroutines, NEW s \in Sessions, NEW v, Resume(c, s, v),
             UNCHANGED answers
      PROVE  Answers'
  BY <1>2, <1>3, <1>8 DEF Resume, ResumeFails, ResumeRuns, answers
<1>9. ASSUME TypeOK, Answers, NEW s \in Sessions, DispatchResponse(s)
      PROVE  Answers'
  BY <1>8, <1>9 DEF DispatchResponse
<1>10. ASSUME TypeOK, TokenHasSleeper, Answers, DispatchWakeup
       PROVE  Answers'
  <2> DEFINE s == sleep_session[Head(wakeup_queue)]
  <2>1. CASE s = Nil
    BY <1>3, <1>10, <2>1 DEF DispatchWakeup, tables, answers
  <2>2. CASE s # Nil
    <3>1. Head(wakeup_queue) \in Tokens
      BY <1>10 DEF DispatchWakeup, TypeOK
    <3>2. s \in Sessions /\ session_id_coroutine[s] \in Coroutines
      BY <1>10, <2>2, <3>1 DEF TypeOK, TokenHasSleeper
    <3> QED BY <1>8, <1>10, <2>2, <3>2 DEF DispatchWakeup
  <2> QED BY <2>1, <2>2
<1>11. ASSUME TypeOK, Answers,
              \/ \E s \in Sessions : DropResponse(s) \/ PeerAnswers(s)
              \/ \E s \in Sessions : Arrive(s)
              \/ OtherArrives \/ FindsEmpty \/ ClearsFlag
              \/ WakeupsDone \/ ForksDone
              \/ UNCHANGED vars
       PROVE  Answers'
  BY <1>3, <1>11
  DEF DropResponse, PeerAnswers, Arrive, OtherArrives, FindsEmpty, ClearsFlag, WakeupsDone,
      ForksDone, vars, tables, answers
<1>12. ASSUME TypeOK, Answers, RunFork
       PROVE  Answers'
  <2>1. Head(fork_queue) \in Coroutines
    BY <1>12 DEF RunFork, TypeOK
  <2> QED BY <1>3, <1>5, <1>12, <2>1 DEF RunFork, answers
<1>13. ASSUME TypeOK, Answers, NEW c \in Coroutines,
              \/ \E s \in Sessions : Call(c, s)
              \/ \E d \in Coroutines : Fork(c, d) \/ \E s \in Sessions : Timeout(c, d, s)
              \/ \E k \in Tokens : Wakeup(c, k)
              \/ Finish(c)
       PROVE  Answers'
  BY <1>3, <1>13 DEF Call, Fork, Timeout, Wakeup, Finish, tables, answers
<1> HIDE DEF OwnerAnswers, AnsweredOnce
<1> QED
  BY <1>1, <1>4, <1>6, <1>7, <1>9, <1>10, <1>11, <1>13, <1>12 DEF Next, Dispatch

-----------------------------------------------------------------------------
(* The theorems.                                                           *)

\* An empty Lua state is a correct one.
LEMMA InitIInv == Init => IInv
<1> SUFFICES ASSUME Init PROVE IInv
  OBVIOUS
<1>1. TypeOK
  BY LuaActorAssumption DEF Init, TypeOK, Status
<1>2. Waits
  BY NilIsNone
  DEF Init, Waits, OneRuns, HeldByWaiters, FreshSession, ForksReady, Known,
      ResumesItsWaiter, Awaited, TokenHasSleeper, NobodyLost, BreakIsCleared, Suspended
<1>3. WakeupsLeft /\ OwnerAnswers /\ AnsweredOnce
  BY LuaActorAssumption DEF Init, WakeupsLeft, OwnerAnswers, AnsweredOnce, Requests
<1> QED BY <1>1, <1>2, <1>3 DEF IInv

\* What is proved by induction over the steps of the service.
THEOREM Invariance == Spec => []IInv
<1>1. IInv /\ [Next]_vars => IInv'
  BY TypeStep, WaitsStep, WakeupsStep, AnswersStep DEF IInv, Waits, Known
<1> QED BY <1>1, InitIInv, PTL DEF Spec

\* The tables, the queues and the coroutines stay well typed.
THEOREM TypeCorrect == Spec => []TypeOK
BY Invariance, PTL DEF IInv

\* A RESPONSE resumes the coroutine that waits with its session and no other, or one
\* that has caught the error of a duplicate token.
THEOREM ResponseResumesWaiter == Spec => []ResumesItsWaiter
<1>1. IInv => ResumesItsWaiter
  BY DEF IInv, Waits, Known
<1> QED BY <1>1, Invariance, PTL

\* Who sleeps, calls, waits or is to be started can be reached, and dispatch_wakeup
\* finds a coroutine that sleeps.
THEOREM Reachable == Spec => []SleepersReachable
<1>1. IInv => SleepersReachable
  BY DEF IInv, Waits, Known, SleepersReachable
<1> QED BY <1>1, Invariance, PTL

\* "BREAK" and wakeup_queue are cleared again.
THEOREM Drained == Spec => []TablesDrained
<1>1. IInv => TablesDrained
  BY DEF IInv, Waits, Known, WakeupsLeft, TablesDrained, WakeupsDrained
<1> QED BY <1>1, Invariance, PTL

\* A request is answered at most once.
THEOREM OneAnswer == Spec => []AnsweredOnce
BY Invariance, PTL DEF IInv

=============================================================================
