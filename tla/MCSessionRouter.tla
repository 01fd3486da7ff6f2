--------------------------- MODULE MCSessionRouter ---------------------------
(* Small instances of SessionRouter for TLC. *)
EXTENDS SessionRouter

\* Part of what the environment may do: one client asks first and stays; the others
\* ask after it, and are lost while its request is under way.
Opener == CHOOSE c \in Client : TRUE

OpenerStays ==
  \E c \in Client :
    \/ \E s \in Session : (asked = 0 <=> c = Opener) /\ Ask(c, "attach", s)
    \/ Take(c)
    \/ line # <<>> /\ c # Opener /\ First.client = Opener /\ Disconnect(c)

OpenedSpec == Init /\ [][Router \/ Workers \/ OpenerStays]_vars /\ WF_vars(Router \/ Workers)
=============================================================================
