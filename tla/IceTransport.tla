---------------------------- MODULE IceTransport ----------------------------
(***************************************************************************)
(* What an ICE channel promises to those that use it: DtlsTransport, which *)
(* follows its writable state, and IceAgent, which follows its state.      *)
(* IceChannel implements it, TransportController relies on it.             *)
(***************************************************************************)
EXTENDS Naturals

VARIABLES state,     \* IceTransportState
          writable,  \* _writable
          been,      \* _has_been_connection: it has been writable
          answered   \* the remote ICE parameters are set

vars == <<state, writable, been, answered>>

State == {"new", "checking", "connected", "disconnected", "failed"}

Init == state = "new" /\ ~writable /\ ~been /\ ~answered

(* The states that may come after s.  A channel never returns to "new",    *)
(* and to "checking" only from a failure before it was ever connected.     *)
After(s, b) ==
    CASE s = "new" -> {"checking"}
      [] s = "checking" -> {"connected", "failed"}
      [] s = "connected" -> {"disconnected", "failed"}
      [] s = "disconnected" -> {"connected", "failed"}
      [] s = "failed" -> {"connected", IF b THEN "disconnected" ELSE "checking"}

Answer == /\ ~answered /\ answered' = TRUE
          /\ UNCHANGED <<state, writable, been>>

(* A change of state.  The channel is writable exactly while connected,    *)
(* and a peer without credentials cannot make it so.                       *)
Change == /\ state' \in After(state, been)
          /\ writable' = (state' = "connected")
          /\ writable' => answered
          /\ been' = (been \/ writable')
          /\ UNCHANGED answered

Next == Answer \/ Change

Spec == Init /\ [][Next]_vars
=============================================================================
