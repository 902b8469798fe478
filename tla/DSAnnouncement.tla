--------------------------- MODULE DSAnnouncement ----------------------------
(***************************************************************************)
(* What the video port promises its clients about a change of resolution,  *)
(* without threads, lists and references: whoever was listed when the      *)
(* change began is told of it before the hardware is asked and never       *)
(* afterwards, and hears of its end only after that.  A client that was    *)
(* not listed then may hear of the end alone, and any of these may fail to *)
(* come.  DSVideoPortNotifier implements this.                             *)
(***************************************************************************)
EXTENDS Naturals

CONSTANTS
  Sinks,   \* the clients
  Changes  \* the changes of resolution

VARIABLES
  begun,    \* changes that have begun
  audience, \* by change: the clients that must be told first
  told,     \* by change: the clients told of its beginning
  applied,  \* changes the hardware was asked for
  heard     \* by change: the clients told of its end
announcementVars == <<begun, audience, told, applied, heard>>

Init ==
  /\ begun = {} /\ applied = {}
  /\ audience = [n \in Changes |-> {}]
  /\ told = [n \in Changes |-> {}]
  /\ heard = [n \in Changes |-> {}]

Begin(n) ==
  /\ n \notin begun
  /\ begun' = begun \cup {n}
  /\ \E listed \in SUBSET Sinks : audience' = [audience EXCEPT ![n] = listed]
  /\ UNCHANGED <<told, applied, heard>>

TellBeginning(n, s) ==
  /\ n \in begun \ applied /\ s \in audience[n]
  /\ told' = [told EXCEPT ![n] = @ \cup {s}]
  /\ UNCHANGED <<begun, audience, applied, heard>>

Apply(n) ==
  /\ n \in begun \ applied /\ audience[n] \subseteq told[n]
  /\ applied' = applied \cup {n}
  /\ UNCHANGED <<begun, audience, told, heard>>

TellEnd(n, s) ==
  /\ n \in applied
  /\ heard' = [heard EXCEPT ![n] = @ \cup {s}]
  /\ UNCHANGED <<begun, audience, told, applied>>

Next ==
  \E n \in Changes :
    \/ Begin(n) \/ Apply(n)
    \/ \E s \in Sinks : TellBeginning(n, s) \/ TellEnd(n, s)

Spec == Init /\ [][Next]_announcementVars
=============================================================================
