------------------------------ MODULE Playback ------------------------------
(***************************************************************************)
(* What a client that asks for one replay at a time may rely on.  The      *)
(* files of the request are played one after the other, each as a whole:   *)
(* the host gets every report of a file once, and none is overtaken by one *)
(* recorded Slack or more after it.  A file that is gone counts as played. *)
(* Between two files the call may fail, when the next one or the pause     *)
(* before it makes no sense, and is seen to have failed; it returns only   *)
(* when all of them are played, as often as they were asked for.  Once     *)
(* someone has asked for a stop nothing more of the request is begun; a    *)
(* report in flight then may still arrive, at any later time, and the      *)
(* release that ends a stop may come before or after it.  The process ends *)
(* only over a stop or a call that fails.                                  *)
(***************************************************************************)
EXTENDS Integers, Sequences

CONSTANTS
  Request,  \* what may be asked for: sequences of files, a file a sequence of events
  Slack,    \* events recorded this far apart keep their order
  Zero      \* the report in which no key is down

VARIABLES
  phase,   \* idle, playing, stopping, failed (idle after an exception) or dead
  plan,    \* the files of the request
  done,    \* how many of them are over
  file,    \* the next one: unread, whole, or gone when it is not there
  sent,    \* the events of it that the host has got
  flying,  \* reports that were in flight when they were stopped
  host     \* the report the host got last

play == <<plan, done, file, sent>>
vars == <<phase, play, flying, host>>

Rest == {"idle", "failed"}
NoPlay == plan = << >> /\ done = 0 /\ file = "unread" /\ sent = {}

Init == phase = "idle" /\ NoPlay /\ flying = {} /\ host = Zero

Begin ==
  /\ phase \in Rest /\ phase' = "playing"
  /\ plan' \in Request
  /\ UNCHANGED <<done, file, sent, flying, host>>

Open ==
  /\ phase = "playing" /\ file = "unread" /\ done < Len(plan)
  /\ file' \in {"whole", "gone"}
  /\ UNCHANGED <<phase, plan, done, sent, flying, host>>

Current == plan[done + 1]

\* What may go out next: all that has to go before it has gone.
Deliverable ==
  {i \in DOMAIN Current \ sent :
     \A k \in 1..(i - 1) : k \in sent \/ Current[i].delay < Current[k].delay + Slack}

Deliver ==
  /\ phase = "playing" /\ file = "whole"
  /\ \E i \in Deliverable : host' = Current[i].data /\ sent' = sent \cup {i}
  /\ UNCHANGED <<phase, plan, done, file, flying>>

Close ==
  /\ phase = "playing"
  /\ file = "gone" \/ (file = "whole" /\ sent = DOMAIN Current)
  /\ done' = done + 1 /\ file' = "unread" /\ sent' = {}
  /\ UNCHANGED <<phase, plan, flying, host>>

Finish ==
  /\ phase = "playing" /\ done = Len(plan)
  /\ phase' = "idle" /\ NoPlay'
  /\ UNCHANGED <<flying, host>>

Fail ==
  /\ phase = "playing" /\ file = "unread"
  /\ \/ phase' = "failed" /\ UNCHANGED flying
     \/ phase' = "dead" /\ flying' = {}
  /\ NoPlay'
  /\ UNCHANGED host

Stop ==
  /\ phase = "playing" /\ phase' = "stopping"
  /\ \/ UNCHANGED flying
     \/ /\ file = "whole"
        /\ \E i \in Deliverable : flying' = flying \cup {Current[i].data}
  /\ NoPlay'
  /\ UNCHANGED host

Stopped ==
  /\ phase = "stopping" /\ phase' \in Rest
  /\ UNCHANGED <<play, flying, host>>

\* A stop may also come when there is nothing to stop.
Release ==
  /\ phase \in {"stopping"} \cup Rest
  /\ host' = Zero
  /\ UNCHANGED <<phase, play, flying>>

\* Two reports in flight may be the same.
Arrive ==
  /\ phase # "dead"
  /\ \E report \in flying :
       host' = report /\ flying' \in {flying, flying \ {report}}
  /\ UNCHANGED <<phase, play>>

Crash ==
  /\ phase \in {"stopping"} \cup Rest /\ phase' = "dead"
  /\ flying' = {}
  /\ UNCHANGED <<play, host>>

Relaunch ==
  /\ phase = "dead" /\ phase' = "idle"
  /\ host' = Zero
  /\ UNCHANGED <<play, flying>>

Next ==
  \/ Begin \/ Open \/ Deliver \/ Close \/ Finish \/ Fail
  \/ Stop \/ Stopped \/ Release \/ Arrive \/ Crash \/ Relaunch

Spec == Init /\ [][Next]_vars
=============================================================================
