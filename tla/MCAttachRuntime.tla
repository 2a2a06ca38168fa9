--------------------------- MODULE MCAttachRuntime ---------------------------
(***************************************************************************)
(* Bounded instances of AttachRuntime: who connects, and for which keys.   *)
(***************************************************************************)
EXTENDS AttachRuntime, TLC

\* Clients that fence each other: every generation of one session.
Contested == {key \in Keys : key.sid = 1}

\* Clients of different sessions: the first generation of each.
Unrelated == {key \in Keys : key.gen = 1}

\* One attacher asks for the first generation of session 1, the others for any
\* key of theirs: nothing but the fencing between two of them tells keys apart.
FirstAndOthers(c, theirs) ==
  ({c} \X (Contested \cap Unrelated)) \cup ((Attachers \ {c}) \X theirs)

\* Two attaches and a CANCEL_ATTACH for one session; two attaches over the
\* sessions, one of which evicts the other, and a RESUME; an attach whose target
\* two RESUMEs fight over.
Requests ==
  {FirstAndOthers(c, Contested) \cup (Cancellers \X Contested) : c \in Attachers}
  \cup {FirstAndOthers(c, Unrelated) \cup ({r} \X {1}) : c \in Attachers, r \in Resumers}
  \cup {FirstAndOthers(c, {}) \cup (Resumers \X {1}) : c \in Attachers}

\* Two attaches for one session.
Contenders == {Attachers \X Contested}

\* Peers that play the same part are interchangeable.
Peers == Permutations(Attachers) \cup Permutations(Resumers)
=============================================================================
