---------------------------- MODULE MCImapExpunge ----------------------------
(* Small instances of ImapExpunge for TLC: pairs of an account's policy and *)
(* a server it fits, and the contents of the mailboxes.                     *)
EXTENDS ImapExpunge

FittingServers ==
  {<<"auto", "low-to-high">>, <<"auto", "high-to-low">>, <<"stable", "stable">>}

TwoUids   == [d \in Dirs |-> {2, 3}]
ThreeUids == [d \in Dirs |-> {2, 3, 5}]
=============================================================================
