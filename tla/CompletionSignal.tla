--------------------------- MODULE CompletionSignal ---------------------------
(* The reusable one-shot channel between a Win32 callback and a future        *)
(* (src/callback.rs).  One future at a time listens, so the receiving end is  *)
(* one slot; a sender whose receiver was dropped is "dead".  signal() takes   *)
(* the sender under the lock and sends after it: the events callbacks hold    *)
(* in between are in "held".                                                  *)
CONSTANT Events

VARIABLES
  sender,   \* the slot: "none", "live" (its receiver is ours) or "dead"
  held,     \* taken senders with their events, on their way
  rx,       \* our receiver: "none", "open", or "closed" (its sender is gone)
  mail      \* the event that reached our receiver, if any

signalVars == <<sender, held, rx, mail>>

SignalTypeOK ==
  /\ sender \in {"none", "live", "dead"}
  /\ held \subseteq [to : {"live", "dead"}, event : Events]
  /\ rx \in {"none", "open", "closed"}
  /\ mail \subseteq Events

SignalInit == sender = "none" /\ held = {} /\ rx = "none" /\ mail = {}

Die(s) == IF s = "live" THEN "dead" ELSE s
Orphaned == {[h EXCEPT !.to = "dead"] : h \in held}

\* A listener is installed although the old sender is still in its slot: it
\* stays there.
BugListenKeepsOld ==
  /\ sender' = IF sender = "none" THEN "live" ELSE sender
  /\ rx' = "open"
  /\ mail' = {}
  /\ held' = Orphaned

\* listen(): a sender left over in the slot is replaced.
Listen ==
  /\ sender' = "live"
  /\ rx' = "open"
  /\ mail' = {}
  /\ held' = Orphaned

\* listen(), and the operation failed synchronously: the future is dropped
\* and its sender stays in the slot.
ListenAbandoned ==
  /\ sender' = "dead"
  /\ rx' = "none"
  /\ mail' = {}
  /\ held' = Orphaned

\* signal(), first half: a no-op when nobody listens.
Take(e) ==
  /\ sender' = "none"
  /\ held' = IF sender = "none" THEN held ELSE held \cup {[to |-> sender, event |-> e]}
  /\ UNCHANGED <<rx, mail>>

\* signal(), second half: an event for a dropped receiver is lost.
Send(h) ==
  /\ h \in held
  /\ held' = held \ {h}
  /\ mail' = IF h.to = "live" THEN {h.event} ELSE mail
  /\ UNCHANGED <<sender, rx>>

\* The future resolves, or is dropped before it does.
DropReceiver ==
  /\ rx' = "none"
  /\ mail' = {}
  /\ sender' = Die(sender)
  /\ held' = Orphaned

\* The signal itself goes: a receiver still waiting sees SignalCancelled.
DropSignal ==
  /\ sender' = "none"
  /\ rx' = IF sender = "live" THEN "closed" ELSE rx
  /\ UNCHANGED <<held, mail>>
=============================================================================
