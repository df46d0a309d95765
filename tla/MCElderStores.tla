---------------------------- MODULE MCElderStores ----------------------------
(***************************************************************************)
(* A sequenced and an unsequenced map, a public sequence and a private     *)
(* register of one owner, a second client that competes with the owner for *)
(* an edit of a map, one elder of old and a node that becomes an elder.    *)
(***************************************************************************)
EXTENDS ElderStores

CONSTANTS own, peer, o1, n

MCAddress == {"m", "u", "s", "r"}

MCKind ==
  [a \in MCAddress |->
     IF a \in {"m", "u"} THEN "map" ELSE IF a = "s" THEN "sequence" ELSE "register"]

MCOwner == [a \in MCAddress |-> own]

MCPolicy == [a \in MCAddress |-> IF a = "r" THEN {} ELSE {peer}]

Req(cmd, at, by, nr) ==
  [cmd |-> cmd, at |-> at, by |-> by, key |-> "k", nr |-> nr, user |-> peer]

OtherEntry(r) == [r EXCEPT !.key = "l"]

\* Edits of the map that compete.
MapRequest ==
  {Req("New", "m", own, 0), Req("Edit", "m", own, 1), Req("Edit", "m", peer, 1),
   Req("Edit", "m", own, 2)}

\* Edits of two entries.
EntryRequest ==
  {Req("New", "m", own, 0), Req("Edit", "m", own, 1), OtherEntry(Req("Edit", "m", peer, 1))}

\* The same of a map without versions.
UnseqRequest ==
  {Req("New", "u", own, 0), Req("Edit", "u", own, 1), Req("Edit", "u", own, 2),
   Req("Edit", "u", peer, 2)}

\* Permissions that go and come.
PermissionRequest ==
  {Req("New", "m", own, 0), Req("Delete", "m", own, 0), Req("Edit", "m", peer, 1),
   Req("DelUserPermissions", "m", own, 1), Req("SetUserPermissions", "m", own, 2)}

\* What a push holds: a map and a sequence.
PushRequest ==
  {Req("New", "m", own, 0), Req("Delete", "m", own, 0),
   Req("New", "s", own, 0), Req("Edit", "s", peer, 1), Req("Delete", "s", own, 0)}

\* A register, which is not pushed, beside a sequence.
RegisterRequest ==
  {Req("New", "s", own, 0),
   Req("New", "r", own, 0), Req("Edit", "r", own, 1), Req("Delete", "r", own, 0)}

MCWorkload ==
  {MapRequest, EntryRequest, UnseqRequest, PermissionRequest, PushRequest,
   RegisterRequest}

MCRequest == UNION MCWorkload
=============================================================================
