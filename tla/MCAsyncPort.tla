----------------------------- MODULE MCAsyncPort -----------------------------
(***************************************************************************)
(* Instances of AsyncPort for TLC.  The main thread owns the port, a       *)
(* second thread (the render thread, say) also sends to it.                *)
(***************************************************************************)
EXTENDS AsyncPort, TLC

CONSTANTS main, other, m1, m2, m3

MCClients == {main, other}
MCMessages == {m1, m2, m3}

\* The main thread creates m1 and m2, the other thread m3.
MCSenderOf == m1 :> main @@ m2 :> main @@ m3 :> other

\* One handler that accepts everything.
MCAcceptsAll == <<MCMessages>>

\* Two handlers that both accept m1; nobody accepts m3.
MCAcceptsSome == <<{m1}, {m1, m2}>>
=============================================================================
