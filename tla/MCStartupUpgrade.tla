--------------------------- MODULE MCStartupUpgrade ---------------------------
(* Three chats, of which one has a queue of two inputs and a run with two  *)
(* side effects; before the graph two of them had three messages, the      *)
(* third none, and the legacy tables held two open escalations and a usage *)
(* record.                                                                 *)
EXTENDS StartupUpgrade, TLC

CONSTANTS c1, c2, c3, d1, d2, m1, m2, m3, r1, r2, r3
MCChats == {c1, c2, c3}
MCEntries == {1, 2}
MCDeliveries == {d1, d2}
MCMessages == {m1, m2, m3}
MCChatOf == m1 :> c1 @@ m2 :> c1 @@ m3 :> c2
MCRecords == {r1, r2, r3}
MCOpen == {r1, r2}
=============================================================================
