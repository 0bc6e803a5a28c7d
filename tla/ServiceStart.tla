---------------------------- MODULE ServiceStart ----------------------------
(***************************************************************************)
(* How services come to be: service_manager::new_service, which main()      *)
(* calls for the bootstrap service and a script for any other, and          *)
(* onbnet.start, whose start function waits for a timer of 0 ticks.         *)
(*                                                                          *)
(* The thread that creates a service loads its script, which may itself     *)
(* create services; only then does the service get its place in             *)
(* service_vector_, without which nothing can be sent to it.  Meanwhile the *)
(* message workers, the timer thread and the thread that watches the        *)
(* scripts go on.  Nothing here is locked, and max_service_id is read and   *)
(* written in two steps.                                                    *)
(*                                                                          *)
(* That a service is run by one worker at a time is taken from              *)
(* ServiceDispatch, and what becomes of its coroutines is in LuaActor.      *)
(***************************************************************************)
EXTENDS Naturals, Sequences, SequencesExt

CONSTANTS
  Workers,      \* the message workers
  Main,         \* the thread of main()
  MaxServices,  \* bound on the services created, of the 24 there is room for
  MaxPosts      \* bound on the messages of other services and of the watcher

Threads  == Workers \cup {Main}
Services == 1 .. MaxServices      \* in the order of their `new service`
Numbers  == 0 .. MaxServices - 1  \* of services, the indices of service_vector_
Null     == 0

\* what is assumed of the constants, where this module is instantiated
ServiceStartAssumption ==
  /\ Main \notin Workers
  /\ MaxServices \in 1 .. 24
  /\ MaxPosts \in Nat

VARIABLES
  max_service_id,
  service_vector_,  \* per number, the service that is sent to
  service_id_,      \* per service, its number
  stage,            \* per service, how far new_service has got
  creating,         \* per thread, the services it is creating, the innermost last
  handling,         \* per worker, the service whose message it handles
  cb_context_,      \* the services whose callback is set
  proto,            \* those that have a dispatch function for requests
  timer,            \* those whose start timer has not fired
  mail,             \* per service, its messages
  begun,            \* those whose start function has run (begun, at least)
  posts,            \* the number of messages posted
  crashed,          \* a worker has called a callback that is not set
  raced,            \* history: two threads have drawn a number at the same time
  missed,           \* history: services whose start timer found no service
  unheard           \* history: services that have dropped a request

numberVars  == <<max_service_id, service_vector_, service_id_>>
threadVars  == <<stage, creating, handling>>
scriptVars  == <<cb_context_, proto, timer, begun>>
messageVars == <<mail, posts, crashed>>
history     == <<raced, missed, unheard>>
vars == <<numberVars, threadVars, scriptVars, messageVars, history>>

Messages == {"start", "request", "hotfix"}

TypeOK ==
  /\ max_service_id \in 0 .. MaxServices
  /\ service_vector_ \in [Numbers -> Services \cup {Null}]
  /\ service_id_ \in [Services -> Numbers]
  /\ stage \in [Services -> {"none", "number", "load", "ready"}]
  /\ creating \in [Threads -> Seq(Services)]
  /\ handling \in [Workers -> Services \cup {Null}]
  /\ {cb_context_, proto, timer, begun, missed, unheard} \subseteq SUBSET Services
  /\ mail \in [Services -> Seq(Messages)]
  /\ posts \in 0 .. MaxPosts
  /\ {crashed, raced} \subseteq BOOLEAN

\* service_manager::init has run; the workers and the timer are running
Init ==
  /\ max_service_id = 0
  /\ service_vector_ = [n \in Numbers |-> Null]
  /\ service_id_ = [s \in Services |-> 0]
  /\ stage = [s \in Services |-> "none"]
  /\ creating = [t \in Threads |-> <<>>]
  /\ handling = [w \in Workers |-> Null]
  /\ cb_context_ = {} /\ proto = {} /\ timer = {} /\ begun = {}
  /\ mail = [s \in Services |-> <<>>]
  /\ posts = 0 /\ crashed = FALSE
  /\ raced = FALSE /\ missed = {} /\ unheard = {}

-----------------------------------------------------------------------------
(* Creation.                                                               *)

\* the service thread t creates, and the one whose script it runs
Inner(t) == IF creating[t] = <<>> THEN Null ELSE Last(creating[t])

Script(t) ==
  IF creating[t] = <<>> THEN IF t = Main THEN Null ELSE handling[t]
                        ELSE Inner(t)

Running(t, s) == ~crashed /\ s # Null /\ Script(t) = s /\ stage[s] \in {"load", "ready"}

Unused(s) == stage[s] = "none" /\ \A r \in Services : stage[r] = "none" => s <= r

\* new service, and the read of max_service_id++
New(t, s) ==
  /\ Unused(s)
  /\ \/ t = Main /\ s = 1
     \/ \E r \in Services : Running(t, r)
  /\ service_id_' = [service_id_ EXCEPT ![s] = max_service_id]
  /\ stage' = [stage EXCEPT ![s] = "number"]
  /\ creating' = [creating EXCEPT ![t] = Append(@, s)]
  /\ raced' = (raced \/ \E r \in Services : stage[r] = "number")
  /\ UNCHANGED <<max_service_id, service_vector_, handling, scriptVars,
                 messageVars, missed, unheard>>

\* mutant: the service can be sent to while its script is loaded
Count_Registers(t) ==
  LET s == Inner(t) IN
  /\ ~crashed /\ s # Null /\ stage[s] = "number"
  /\ max_service_id' = service_id_[s] + 1
  /\ service_vector_' = [service_vector_ EXCEPT ![service_id_[s]] = s]
  /\ stage' = [stage EXCEPT ![s] = "load"]
  /\ UNCHANGED <<service_id_, creating, handling, scriptVars, messageVars, history>>

\* the write of max_service_id++; init goes on to load the script
Count(t) ==
  LET s == Inner(t) IN
  /\ ~crashed /\ s # Null /\ stage[s] = "number"
  /\ max_service_id' = service_id_[s] + 1
  /\ stage' = [stage EXCEPT ![s] = "load"]
  /\ UNCHANGED <<service_vector_, service_id_, creating, handling, scriptVars,
                 messageVars, history>>

\* The script ends, or fails, which nobody looks at; new_service registers the
\* service and returns its number.
Register(t) ==
  LET s == Inner(t) IN
  /\ ~crashed /\ s # Null /\ stage[s] = "load"
  /\ service_vector_' = [service_vector_ EXCEPT ![service_id_[s]] = s]
  /\ stage' = [stage EXCEPT ![s] = "ready"]
  /\ creating' = [creating EXCEPT ![t] = Front(@)]
  /\ UNCHANGED <<max_service_id, service_id_, handling, scriptVars, messageVars, history>>

-----------------------------------------------------------------------------
(* What a script does.                                                     *)

\* onbnet.start, at the top level of the script
Start(t, s) ==
  /\ Running(t, s) /\ stage[s] = "load" /\ s \notin cb_context_
  /\ cb_context_' = cb_context_ \cup {s}
  /\ timer' = timer \cup {s}
  /\ UNCHANGED <<numberVars, threadVars, proto, begun, messageVars, history>>

\* onbnet.dispatch("lua", f), at the top level or later
SetDispatch(t, s) ==
  /\ Running(t, s) /\ s \notin proto
  /\ proto' = proto \cup {s}
  /\ UNCHANGED <<numberVars, threadVars, cb_context_, timer, begun, messageVars, history>>

\* service_manager::send to a number that has a service
Deliver(n, m) ==
  /\ service_vector_[n] # Null
  /\ mail' = [mail EXCEPT ![service_vector_[n]] = Append(@, m)]

\* onbnet.send or onbnet.call in a script (to a number without a service they
\* return at once), and push_hotfix of the thread that watches the files
Post(n, m) ==
  /\ ~crashed /\ posts < MaxPosts
  /\ m = "request" => \E t \in Threads, s \in Services : Running(t, s)
  /\ Deliver(n, m)
  /\ posts' = posts + 1
  /\ UNCHANGED <<numberVars, threadVars, scriptVars, crashed, history>>

\* the start timer, which may be faster than the rest of the script
TimerFires(s) ==
  /\ ~crashed /\ s \in timer
  /\ timer' = timer \ {s}
  /\ \/ Deliver(service_id_[s], "start") /\ UNCHANGED missed
     \/ /\ service_vector_[service_id_[s]] = Null
        /\ missed' = missed \cup {s}
        /\ UNCHANGED mail
  /\ UNCHANGED <<numberVars, threadVars, cb_context_, proto, begun, posts, crashed,
                 raced, unheard>>

-----------------------------------------------------------------------------
(* Message workers.                                                        *)

Handled(s) == \E w \in Workers : handling[w] = s

Taken(w, s, m) ==
  /\ ~crashed /\ handling[w] = Null /\ ~Handled(s)
  /\ mail[s] # <<>> /\ Head(mail[s]) = m
  /\ mail' = [mail EXCEPT ![s] = Tail(@)]

\* the callback of the service is null: onbnet.start was not called, or failed
Crash(w, s) ==
  /\ \E m \in Messages : Taken(w, s, m)
  /\ s \notin cb_context_
  /\ crashed' = TRUE
  /\ UNCHANGED <<numberVars, threadVars, scriptVars, posts, history>>

\* onbnet.dispatch_message: the start timer of a service has its first session,
\* as has that of another with the same number
Handle(w, s, m) ==
  /\ Taken(w, s, m)
  /\ s \in cb_context_
  /\ handling' = [handling EXCEPT ![w] = s]
  /\ begun' = IF m = "start" THEN begun \cup {s} ELSE begun
  /\ unheard' = IF m = "request" /\ s \notin proto THEN unheard \cup {s} ELSE unheard
  /\ UNCHANGED <<numberVars, stage, creating, cb_context_, proto, timer, posts,
                 crashed, raced, missed>>

\* the handler is over
Return(w) ==
  /\ ~crashed /\ handling[w] # Null /\ creating[w] = <<>>
  /\ handling' = [handling EXCEPT ![w] = Null]
  /\ UNCHANGED <<numberVars, stage, creating, scriptVars, messageVars, history>>

Creation(t) == Count(t) \/ Register(t)

Work(w) ==
  \/ \E s \in Services : Crash(w, s) \/ \E m \in Messages : Handle(w, s, m)
  \/ Return(w)

Next ==
  \/ \E t \in Threads :
       \/ \E s \in Services : New(t, s) \/ Start(t, s) \/ SetDispatch(t, s)
       \/ Creation(t)
  \/ \E n \in Numbers, m \in {"request", "hotfix"} : Post(n, m)
  \/ \E s \in Services : TimerFires(s)
  \/ \E w \in Workers : Work(w)

Spec == Init /\ [][Next]_vars

-----------------------------------------------------------------------------
(* Properties.                                                             *)

\* A Lua state is used by one thread: no worker runs a service whose script is
\* still being loaded.
OneThreadPerState ==
  \A t \in Threads, w \in Workers : handling[w] \notin Range(creating[t])

\* As long as no two threads draw a number at once, each service has a number of
\* its own, services created by the script of another included, and can be sent to
\* from the moment new_service returns.
OwnNumber ==
  ~raced =>
    /\ \A r, s \in Services :
         stage[r] # "none" /\ stage[s] # "none" /\ service_id_[r] = service_id_[s] => r = s
    /\ \A s \in Services : stage[s] = "ready" => service_vector_[service_id_[s]] = s

\* A start function that has not run is due: its timer or the message of its timer
\* is on its way, unless the timer was faster than the registration or another
\* service took the number.
StartIsDue ==
  ~raced =>
    \A s \in cb_context_ \ (begun \cup missed) : s \in timer \/ "start" \in Range(mail[s])

\* What the code does not promise: that no start timer comes before registration,
\* that a request finds the dispatch function, that numbers are not shared, that
\* a script which fails is of no harm.
StartArrives == missed = {}
RequestHeard == unheard = {}
NoSharedNumber == ~raced
ScriptMayFail == ~crashed

=============================================================================
