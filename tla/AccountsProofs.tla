--------------------------- MODULE AccountsProofs ---------------------------
(***************************************************************************)
(* What the handlers of accounts promise, for any finite set of threads    *)
(* and any users, roles, addresses, passwords, lifetimes of links, lag of  *)
(* the replica and failing commands.  What a handler has still to send     *)
(* names its place (Todos, Place), and Types adds to the types what a      *)
(* thread knows at its place: whose row it has read, of which link it      *)
(* comes, which token it rotates (CallOK).  On Types stand                 *)
(*   - LinkInv: of the handlers with one link, one is past consume_once(), *)
(*   - RotateInv: a refreshed token has one heir, then one descendant,     *)
(*   - ConfInv: a confirmed address was reached by a link,                 *)
(*   - CredInv: until the sweep is over, somebody is about to remove what  *)
(*     goes back to an old password.                                       *)
(***************************************************************************)
EXTENDS Accounts, FiniteSetTheorems, TLAPS

(* What a handler has still to send, at each of its commands. *)
ToAuthenticate == <<"authenticate", "mark", "index">>
ToCheck        == <<"check", "load", "recall", "drop", "unindex", "mark", "index">>
ToLoad         == <<"load", "recall", "drop", "unindex", "mark", "index">>
ToRecall       == <<"recall", "drop", "unindex", "mark", "index">>
ToDrop         == <<"drop", "unindex", "mark", "index">>
ToUnindex      == <<"unindex", "mark", "index">>
ToMark         == <<"mark", "index">>
ToIndex        == <<"index">>
OutRecall      == <<"recall", "drop", "unindex">>
OutDrop        == <<"drop", "unindex">>
OutUnindex     == <<"unindex">>
ConsumeConfirm == <<"consume", "confirm">>
ToConfirm      == <<"confirm">>
ConsumeHash    == <<"consume", "hash", "list", "sweep", "keys">>
ToHash         == <<"hash", "list", "sweep", "keys">>
ToRedeem       == <<"redeem", "list", "sweep", "keys">>
ToList         == <<"list", "sweep", "keys">>
ToSweep        == <<"sweep", "keys">>
ToKeys         == <<"keys">>
ToFree         == <<"free", "consume", "move">>
ConsumeMove    == <<"consume", "move">>
ToMove         == <<"move">>
ToCreate       == <<"create">>
ToPatch        == <<"patch">>
ToRemove       == <<"remove">>
ToRemoveRole   == <<"remove_role">>

Todos ==
    {<<>>, ToAuthenticate, ToCheck, ToLoad, ToRecall, ToDrop, ToUnindex, ToMark, ToIndex,
     OutRecall, OutDrop, OutUnindex, ConsumeConfirm, ToConfirm, ConsumeHash, ToHash, ToRedeem,
     ToList, ToSweep, ToKeys, ToFree, ConsumeMove, ToMove, ToCreate, ToPatch, ToRemove,
     ToRemoveRole}

(* The name of such a place: the next command, and whose it is if several    *)
(* handlers send it.                                                         *)
Place(s) ==
    IF s = <<>> THEN "idle"
    ELSE IF Head(s) = "recall" THEN (IF Len(s) = 5 THEN "recall" ELSE "out_recall")
    ELSE IF Head(s) = "drop" THEN (IF Len(s) = 4 THEN "drop" ELSE "out_drop")
    ELSE IF Head(s) = "unindex" THEN (IF Len(s) = 3 THEN "unindex" ELSE "out_unindex")
    ELSE IF Head(s) = "consume" THEN (IF Len(s) = 5 THEN "consume_hash"
                                      ELSE IF Head(Tail(s)) = "move" THEN "consume_move"
                                      ELSE "consume_confirm")
    ELSE Head(s)
First(s) == IF s = <<>> THEN "" ELSE Head(s)
Ends(s) == Len(s) = 1
Rest(s) == Tail(s)
(* The routes of the handlers, place by place. *)
LEMMA Table ==
    /\ Place(<<>>) = "idle" /\ First(<<>>) = ""
    /\ Place(ToAuthenticate) = "authenticate" /\ First(ToAuthenticate) = "authenticate" /\ ~Ends(ToAuthenticate) /\ Rest(ToAuthenticate) = ToMark
    /\ Place(ToCheck) = "check" /\ First(ToCheck) = "check" /\ ~Ends(ToCheck) /\ Rest(ToCheck) = ToLoad
    /\ Place(ToLoad) = "load" /\ First(ToLoad) = "load" /\ ~Ends(ToLoad) /\ Rest(ToLoad) = ToRecall
    /\ Place(ToRecall) = "recall" /\ First(ToRecall) = "recall" /\ ~Ends(ToRecall) /\ Rest(ToRecall) = ToDrop
    /\ Place(ToDrop) = "drop" /\ First(ToDrop) = "drop" /\ ~Ends(ToDrop) /\ Rest(ToDrop) = ToUnindex
    /\ Place(ToUnindex) = "unindex" /\ First(ToUnindex) = "unindex" /\ ~Ends(ToUnindex) /\ Rest(ToUnindex) = ToMark
    /\ Place(ToMark) = "mark" /\ First(ToMark) = "mark" /\ ~Ends(ToMark) /\ Rest(ToMark) = ToIndex
    /\ Place(ToIndex) = "index" /\ First(ToIndex) = "index" /\ Ends(ToIndex)
    /\ Place(OutRecall) = "out_recall" /\ First(OutRecall) = "recall" /\ ~Ends(OutRecall) /\ Rest(OutRecall) = OutDrop
    /\ Place(OutDrop) = "out_drop" /\ First(OutDrop) = "drop" /\ ~Ends(OutDrop) /\ Rest(OutDrop) = OutUnindex
    /\ Place(OutUnindex) = "out_unindex" /\ First(OutUnindex) = "unindex" /\ Ends(OutUnindex)
    /\ Place(ConsumeConfirm) = "consume_confirm" /\ First(ConsumeConfirm) = "consume" /\ ~Ends(ConsumeConfirm) /\ Rest(ConsumeConfirm) = ToConfirm
    /\ Place(ToConfirm) = "confirm" /\ First(ToConfirm) = "confirm" /\ Ends(ToConfirm)
    /\ Place(ConsumeHash) = "consume_hash" /\ First(ConsumeHash) = "consume" /\ ~Ends(ConsumeHash) /\ Rest(ConsumeHash) = ToHash
    /\ Place(ToHash) = "hash" /\ First(ToHash) = "hash" /\ ~Ends(ToHash) /\ Rest(ToHash) = ToList
    /\ Place(ToRedeem) = "redeem" /\ First(ToRedeem) = "redeem" /\ ~Ends(ToRedeem) /\ Rest(ToRedeem) = ToList
    /\ Place(ToList) = "list" /\ First(ToList) = "list" /\ ~Ends(ToList) /\ Rest(ToList) = ToSweep
    /\ Place(ToSweep) = "sweep" /\ First(ToSweep) = "sweep" /\ ~Ends(ToSweep) /\ Rest(ToSweep) = ToKeys
    /\ Place(ToKeys) = "keys" /\ First(ToKeys) = "keys" /\ Ends(ToKeys)
    /\ Place(ToFree) = "free" /\ First(ToFree) = "free" /\ ~Ends(ToFree) /\ Rest(ToFree) = ConsumeMove
    /\ Place(ConsumeMove) = "consume_move" /\ First(ConsumeMove) = "consume" /\ ~Ends(ConsumeMove) /\ Rest(ConsumeMove) = ToMove
    /\ Place(ToMove) = "move" /\ First(ToMove) = "move" /\ Ends(ToMove)
    /\ Place(ToCreate) = "create" /\ First(ToCreate) = "create" /\ Ends(ToCreate)
    /\ Place(ToPatch) = "patch" /\ First(ToPatch) = "patch" /\ Ends(ToPatch)
    /\ Place(ToRemove) = "remove" /\ First(ToRemove) = "remove" /\ Ends(ToRemove)
    /\ Place(ToRemoveRole) = "remove_role" /\ First(ToRemoveRole) = "remove_role" /\ Ends(ToRemoveRole)
<1>0. Place(<<>>) = "idle" /\ First(<<>>) = ""
  BY DEF Place, First
<1>1. Place(ToAuthenticate) = "authenticate" /\ First(ToAuthenticate) = "authenticate" /\ ~Ends(ToAuthenticate) /\ Rest(ToAuthenticate) = ToMark
  BY DEF ToAuthenticate, ToMark, Place, First, Ends, Rest
<1>2. Place(ToCheck) = "check" /\ First(ToCheck) = "check" /\ ~Ends(ToCheck) /\ Rest(ToCheck) = ToLoad
  BY DEF ToCheck, ToLoad, Place, First, Ends, Rest
<1>3. Place(ToLoad) = "load" /\ First(ToLoad) = "load" /\ ~Ends(ToLoad) /\ Rest(ToLoad) = ToRecall
  BY DEF ToLoad, ToRecall, Place, First, Ends, Rest
<1>4. Place(ToRecall) = "recall" /\ First(ToRecall) = "recall" /\ ~Ends(ToRecall) /\ Rest(ToRecall) = ToDrop
  BY DEF ToRecall, ToDrop, Place, First, Ends, Rest
<1>5. Place(ToDrop) = "drop" /\ First(ToDrop) = "drop" /\ ~Ends(ToDrop) /\ Rest(ToDrop) = ToUnindex
  BY DEF ToDrop, ToUnindex, Place, First, Ends, Rest
<1>6. Place(ToUnindex) = "unindex" /\ First(ToUnindex) = "unindex" /\ ~Ends(ToUnindex) /\ Rest(ToUnindex) = ToMark
  BY DEF ToUnindex, ToMark, Place, First, Ends, Rest
<1>7. Place(ToMark) = "mark" /\ First(ToMark) = "mark" /\ ~Ends(ToMark) /\ Rest(ToMark) = ToIndex
  BY DEF ToMark, ToIndex, Place, First, Ends, Rest
<1>8. Place(ToIndex) = "index" /\ First(ToIndex) = "index" /\ Ends(ToIndex)
  BY DEF ToIndex, Place, First, Ends, Rest
<1>9. Place(OutRecall) = "out_recall" /\ First(OutRecall) = "recall" /\ ~Ends(OutRecall) /\ Rest(OutRecall) = OutDrop
  BY DEF OutRecall, OutDrop, Place, First, Ends, Rest
<1>10. Place(OutDrop) = "out_drop" /\ First(OutDrop) = "drop" /\ ~Ends(OutDrop) /\ Rest(OutDrop) = OutUnindex
  BY DEF OutDrop, OutUnindex, Place, First, Ends, Rest
<1>11. Place(OutUnindex) = "out_unindex" /\ First(OutUnindex) = "unindex" /\ Ends(OutUnindex)
  BY DEF OutUnindex, Place, First, Ends, Rest
<1>12. Place(ConsumeConfirm) = "consume_confirm" /\ First(ConsumeConfirm) = "consume" /\ ~Ends(ConsumeConfirm) /\ Rest(ConsumeConfirm) = ToConfirm
  BY DEF ConsumeConfirm, ToConfirm, Place, First, Ends, Rest
<1>13. Place(ToConfirm) = "confirm" /\ First(ToConfirm) = "confirm" /\ Ends(ToConfirm)
  BY DEF ToConfirm, Place, First, Ends, Rest
<1>14. Place(ConsumeHash) = "consume_hash" /\ First(ConsumeHash) = "consume" /\ ~Ends(ConsumeHash) /\ Rest(ConsumeHash) = ToHash
  BY DEF ConsumeHash, ToHash, Place, First, Ends, Rest
<1>15. Place(ToHash) = "hash" /\ First(ToHash) = "hash" /\ ~Ends(ToHash) /\ Rest(ToHash) = ToList
  BY DEF ToHash, ToList, Place, First, Ends, Rest
<1>16. Place(ToRedeem) = "redeem" /\ First(ToRedeem) = "redeem" /\ ~Ends(ToRedeem) /\ Rest(ToRedeem) = ToList
  BY DEF ToRedeem, ToList, Place, First, Ends, Rest
<1>17. Place(ToList) = "list" /\ First(ToList) = "list" /\ ~Ends(ToList) /\ Rest(ToList) = ToSweep
  BY DEF ToList, ToSweep, Place, First, Ends, Rest
<1>18. Place(ToSweep) = "sweep" /\ First(ToSweep) = "sweep" /\ ~Ends(ToSweep) /\ Rest(ToSweep) = ToKeys
  BY DEF ToSweep, ToKeys, Place, First, Ends, Rest
<1>19. Place(ToKeys) = "keys" /\ First(ToKeys) = "keys" /\ Ends(ToKeys)
  BY DEF ToKeys, Place, First, Ends, Rest
<1>20. Place(ToFree) = "free" /\ First(ToFree) = "free" /\ ~Ends(ToFree) /\ Rest(ToFree) = ConsumeMove
  BY DEF ToFree, ConsumeMove, Place, First, Ends, Rest
<1>21. Place(ConsumeMove) = "consume_move" /\ First(ConsumeMove) = "consume" /\ ~Ends(ConsumeMove) /\ Rest(ConsumeMove) = ToMove
  BY DEF ConsumeMove, ToMove, Place, First, Ends, Rest
<1>22. Place(ToMove) = "move" /\ First(ToMove) = "move" /\ Ends(ToMove)
  BY DEF ToMove, Place, First, Ends, Rest
<1>23. Place(ToCreate) = "create" /\ First(ToCreate) = "create" /\ Ends(ToCreate)
  BY DEF ToCreate, Place, First, Ends, Rest
<1>24. Place(ToPatch) = "patch" /\ First(ToPatch) = "patch" /\ Ends(ToPatch)
  BY DEF ToPatch, Place, First, Ends, Rest
<1>25. Place(ToRemove) = "remove" /\ First(ToRemove) = "remove" /\ Ends(ToRemove)
  BY DEF ToRemove, Place, First, Ends, Rest
<1>26. Place(ToRemoveRole) = "remove_role" /\ First(ToRemoveRole) = "remove_role" /\ Ends(ToRemoveRole)
  BY DEF ToRemoveRole, Place, First, Ends, Rest
<1> QED
  BY <1>0, <1>1, <1>2, <1>3, <1>4, <1>5, <1>6, <1>7, <1>8, <1>9, <1>10, <1>11, <1>12, <1>13, <1>14, <1>15, <1>16, <1>17, <1>18, <1>19, <1>20, <1>21, <1>22, <1>23, <1>24, <1>25, <1>26

LEMMA Places ==
    ASSUME NEW s \in Todos
    PROVE  /\ Place(s) = "idle" <=> s = <<>>
           /\ First(s) = "" <=> Place(s) = "idle"
           /\ First(s) = "authenticate" <=> Place(s) = "authenticate"
           /\ First(s) = "check" <=> Place(s) = "check"
           /\ First(s) = "load" <=> Place(s) = "load"
           /\ First(s) = "recall" <=> Place(s) \in {"recall", "out_recall"}
           /\ First(s) = "drop" <=> Place(s) \in {"drop", "out_drop"}
           /\ First(s) = "unindex" <=> Place(s) \in {"unindex", "out_unindex"}
           /\ First(s) = "mark" <=> Place(s) = "mark"
           /\ First(s) = "index" <=> Place(s) = "index"
           /\ First(s) = "consume" <=> Place(s) \in {"consume_confirm", "consume_hash", "consume_move"}
           /\ First(s) = "confirm" <=> Place(s) = "confirm"
           /\ First(s) = "hash" <=> Place(s) = "hash"
           /\ First(s) = "redeem" <=> Place(s) = "redeem"
           /\ First(s) = "list" <=> Place(s) = "list"
           /\ First(s) = "sweep" <=> Place(s) = "sweep"
           /\ First(s) = "keys" <=> Place(s) = "keys"
           /\ First(s) = "free" <=> Place(s) = "free"
           /\ First(s) = "move" <=> Place(s) = "move"
           /\ First(s) = "create" <=> Place(s) = "create"
           /\ First(s) = "patch" <=> Place(s) = "patch"
           /\ First(s) = "remove" <=> Place(s) = "remove"
           /\ First(s) = "remove_role" <=> Place(s) = "remove_role"
<1>0. CASE s = <<>>
  BY <1>0, Table
<1>1. CASE s = ToAuthenticate
  BY <1>1, Table
<1>2. CASE s = ToCheck
  BY <1>2, Table
<1>3. CASE s = ToLoad
  BY <1>3, Table
<1>4. CASE s = ToRecall
  BY <1>4, Table
<1>5. CASE s = ToDrop
  BY <1>5, Table
<1>6. CASE s = ToUnindex
  BY <1>6, Table
<1>7. CASE s = ToMark
  BY <1>7, Table
<1>8. CASE s = ToIndex
  BY <1>8, Table
<1>9. CASE s = OutRecall
  BY <1>9, Table
<1>10. CASE s = OutDrop
  BY <1>10, Table
<1>11. CASE s = OutUnindex
  BY <1>11, Table
<1>12. CASE s = ConsumeConfirm
  BY <1>12, Table
<1>13. CASE s = ToConfirm
  BY <1>13, Table
<1>14. CASE s = ConsumeHash
  BY <1>14, Table
<1>15. CASE s = ToHash
  BY <1>15, Table
<1>16. CASE s = ToRedeem
  BY <1>16, Table
<1>17. CASE s = ToList
  BY <1>17, Table
<1>18. CASE s = ToSweep
  BY <1>18, Table
<1>19. CASE s = ToKeys
  BY <1>19, Table
<1>20. CASE s = ToFree
  BY <1>20, Table
<1>21. CASE s = ConsumeMove
  BY <1>21, Table
<1>22. CASE s = ToMove
  BY <1>22, Table
<1>23. CASE s = ToCreate
  BY <1>23, Table
<1>24. CASE s = ToPatch
  BY <1>24, Table
<1>25. CASE s = ToRemove
  BY <1>25, Table
<1>26. CASE s = ToRemoveRole
  BY <1>26, Table
<1> QED
  BY <1>0, <1>1, <1>2, <1>3, <1>4, <1>5, <1>6, <1>7, <1>8, <1>9, <1>10, <1>11, <1>12, <1>13, <1>14, <1>15, <1>16, <1>17, <1>18, <1>19, <1>20, <1>21, <1>22, <1>23, <1>24, <1>25, <1>26 DEF Todos

(* The places a handler goes through. *)
Lasts == {"index", "out_unindex", "confirm", "keys", "move", "create", "patch", "remove",
          "remove_role"}
Follows(p, q) ==
    \/ p \in {"authenticate", "unindex"} /\ q = "mark"
    \/ p = "check" /\ q = "load"
    \/ p = "load" /\ q = "recall"
    \/ p = "recall" /\ q = "drop"
    \/ p = "drop" /\ q = "unindex"
    \/ p = "mark" /\ q = "index"
    \/ p = "out_recall" /\ q = "out_drop"
    \/ p = "out_drop" /\ q = "out_unindex"
    \/ p = "consume_confirm" /\ q = "confirm"
    \/ p = "consume_hash" /\ q = "hash"
    \/ p \in {"hash", "redeem"} /\ q = "list"
    \/ p = "list" /\ q = "sweep"
    \/ p = "sweep" /\ q = "keys"
    \/ p = "free" /\ q = "consume_move"
    \/ p = "consume_move" /\ q = "move"
LEMMA Continues ==
    ASSUME NEW s \in Todos, s # <<>>
    PROVE  /\ Ends(s) <=> Place(s) \in Lasts
           /\ ~Ends(s) => Rest(s) \in Todos /\ Follows(Place(s), Place(Rest(s)))
<1>1. CASE s = ToAuthenticate
  <2>1. Rest(s) \in Todos
    BY <1>1, Table DEF Todos
  <2> QED
    BY <1>1, <2>1, Table DEF Lasts, Follows
<1>2. CASE s = ToCheck
  <2>1. Rest(s) \in Todos
    BY <1>2, Table DEF Todos
  <2> QED
    BY <1>2, <2>1, Table DEF Lasts, Follows
<1>3. CASE s = ToLoad
  <2>1. Rest(s) \in Todos
    BY <1>3, Table DEF Todos
  <2> QED
    BY <1>3, <2>1, Table DEF Lasts, Follows
<1>4. CASE s = ToRecall
  <2>1. Rest(s) \in Todos
    BY <1>4, Table DEF Todos
  <2> QED
    BY <1>4, <2>1, Table DEF Lasts, Follows
<1>5. CASE s = ToDrop
  <2>1. Rest(s) \in Todos
    BY <1>5, Table DEF Todos
  <2> QED
    BY <1>5, <2>1, Table DEF Lasts, Follows
<1>6. CASE s = ToUnindex
  <2>1. Rest(s) \in Todos
    BY <1>6, Table DEF Todos
  <2> QED
    BY <1>6, <2>1, Table DEF Lasts, Follows
<1>7. CASE s = ToMark
  <2>1. Rest(s) \in Todos
    BY <1>7, Table DEF Todos
  <2> QED
    BY <1>7, <2>1, Table DEF Lasts, Follows
<1>8. CASE s = ToIndex
  BY <1>8, Table DEF Lasts
<1>9. CASE s = OutRecall
  <2>1. Rest(s) \in Todos
    BY <1>9, Table DEF Todos
  <2> QED
    BY <1>9, <2>1, Table DEF Lasts, Follows
<1>10. CASE s = OutDrop
  <2>1. Rest(s) \in Todos
    BY <1>10, Table DEF Todos
  <2> QED
    BY <1>10, <2>1, Table DEF Lasts, Follows
<1>11. CASE s = OutUnindex
  BY <1>11, Table DEF Lasts
<1>12. CASE s = ConsumeConfirm
  <2>1. Rest(s) \in Todos
    BY <1>12, Table DEF Todos
  <2> QED
    BY <1>12, <2>1, Table DEF Lasts, Follows
<1>13. CASE s = ToConfirm
  BY <1>13, Table DEF Lasts
<1>14. CASE s = ConsumeHash
  <2>1. Rest(s) \in Todos
    BY <1>14, Table DEF Todos
  <2> QED
    BY <1>14, <2>1, Table DEF Lasts, Follows
<1>15. CASE s = ToHash
  <2>1. Rest(s) \in Todos
    BY <1>15, Table DEF Todos
  <2> QED
    BY <1>15, <2>1, Table DEF Lasts, Follows
<1>16. CASE s = ToRedeem
  <2>1. Rest(s) \in Todos
    BY <1>16, Table DEF Todos
  <2> QED
    BY <1>16, <2>1, Table DEF Lasts, Follows
<1>17. CASE s = ToList
  <2>1. Rest(s) \in Todos
    BY <1>17, Table DEF Todos
  <2> QED
    BY <1>17, <2>1, Table DEF Lasts, Follows
<1>18. CASE s = ToSweep
  <2>1. Rest(s) \in Todos
    BY <1>18, Table DEF Todos
  <2> QED
    BY <1>18, <2>1, Table DEF Lasts, Follows
<1>19. CASE s = ToKeys
  BY <1>19, Table DEF Lasts
<1>20. CASE s = ToFree
  <2>1. Rest(s) \in Todos
    BY <1>20, Table DEF Todos
  <2> QED
    BY <1>20, <2>1, Table DEF Lasts, Follows
<1>21. CASE s = ConsumeMove
  <2>1. Rest(s) \in Todos
    BY <1>21, Table DEF Todos
  <2> QED
    BY <1>21, <2>1, Table DEF Lasts, Follows
<1>22. CASE s = ToMove
  BY <1>22, Table DEF Lasts
<1>23. CASE s = ToCreate
  BY <1>23, Table DEF Lasts
<1>24. CASE s = ToPatch
  BY <1>24, Table DEF Lasts
<1>25. CASE s = ToRemove
  BY <1>25, Table DEF Lasts
<1>26. CASE s = ToRemoveRole
  BY <1>26, Table DEF Lasts
<1> QED
  BY <1>1, <1>2, <1>3, <1>4, <1>5, <1>6, <1>7, <1>8, <1>9, <1>10, <1>11, <1>12, <1>13, <1>14, <1>15, <1>16, <1>17, <1>18, <1>19, <1>20, <1>21, <1>22, <1>23, <1>24, <1>25, <1>26 DEF Todos

(* What Has says of a place. *)
In(s, step) == \E i \in DOMAIN s : s[i] = step
LEMMA Left ==
    /\ \A x \in {"index", "drop", "hash", "keys", "consume"} : ~In(<<>>, x)
    /\ In(ToAuthenticate, "index") /\ ~In(ToAuthenticate, "drop") /\ ~In(ToAuthenticate, "hash") /\ ~In(ToAuthenticate, "keys") /\ ~In(ToAuthenticate, "consume")
    /\ In(ToCheck, "index") /\ In(ToCheck, "drop") /\ ~In(ToCheck, "hash") /\ ~In(ToCheck, "keys") /\ ~In(ToCheck, "consume")
    /\ In(ToLoad, "index") /\ In(ToLoad, "drop") /\ ~In(ToLoad, "hash") /\ ~In(ToLoad, "keys") /\ ~In(ToLoad, "consume")
    /\ In(ToRecall, "index") /\ In(ToRecall, "drop") /\ ~In(ToRecall, "hash") /\ ~In(ToRecall, "keys") /\ ~In(ToRecall, "consume")
    /\ In(ToDrop, "index") /\ In(ToDrop, "drop") /\ ~In(ToDrop, "hash") /\ ~In(ToDrop, "keys") /\ ~In(ToDrop, "consume")
    /\ In(ToUnindex, "index") /\ ~In(ToUnindex, "drop") /\ ~In(ToUnindex, "hash") /\ ~In(ToUnindex, "keys") /\ ~In(ToUnindex, "consume")
    /\ In(ToMark, "index") /\ ~In(ToMark, "drop") /\ ~In(ToMark, "hash") /\ ~In(ToMark, "keys") /\ ~In(ToMark, "consume")
    /\ In(ToIndex, "index") /\ ~In(ToIndex, "drop") /\ ~In(ToIndex, "hash") /\ ~In(ToIndex, "keys") /\ ~In(ToIndex, "consume")
    /\ ~In(OutRecall, "index") /\ In(OutRecall, "drop") /\ ~In(OutRecall, "hash") /\ ~In(OutRecall, "keys") /\ ~In(OutRecall, "consume")
    /\ ~In(OutDrop, "index") /\ In(OutDrop, "drop") /\ ~In(OutDrop, "hash") /\ ~In(OutDrop, "keys") /\ ~In(OutDrop, "consume")
    /\ ~In(OutUnindex, "index") /\ ~In(OutUnindex, "drop") /\ ~In(OutUnindex, "hash") /\ ~In(OutUnindex, "keys") /\ ~In(OutUnindex, "consume")
    /\ ~In(ConsumeConfirm, "index") /\ ~In(ConsumeConfirm, "drop") /\ ~In(ConsumeConfirm, "hash") /\ ~In(ConsumeConfirm, "keys") /\ In(ConsumeConfirm, "consume")
    /\ ~In(ToConfirm, "index") /\ ~In(ToConfirm, "drop") /\ ~In(ToConfirm, "hash") /\ ~In(ToConfirm, "keys") /\ ~In(ToConfirm, "consume")
    /\ ~In(ConsumeHash, "index") /\ ~In(ConsumeHash, "drop") /\ In(ConsumeHash, "hash") /\ In(ConsumeHash, "keys") /\ In(ConsumeHash, "consume")
    /\ ~In(ToHash, "index") /\ ~In(ToHash, "drop") /\ In(ToHash, "hash") /\ In(ToHash, "keys") /\ ~In(ToHash, "consume")
    /\ ~In(ToRedeem, "index") /\ ~In(ToRedeem, "drop") /\ ~In(ToRedeem, "hash") /\ In(ToRedeem, "keys") /\ ~In(ToRedeem, "consume")
    /\ ~In(ToList, "index") /\ ~In(ToList, "drop") /\ ~In(ToList, "hash") /\ In(ToList, "keys") /\ ~In(ToList, "consume")
    /\ ~In(ToSweep, "index") /\ ~In(ToSweep, "drop") /\ ~In(ToSweep, "hash") /\ In(ToSweep, "keys") /\ ~In(ToSweep, "consume")
    /\ ~In(ToKeys, "index") /\ ~In(ToKeys, "drop") /\ ~In(ToKeys, "hash") /\ In(ToKeys, "keys") /\ ~In(ToKeys, "consume")
    /\ ~In(ToFree, "index") /\ ~In(ToFree, "drop") /\ ~In(ToFree, "hash") /\ ~In(ToFree, "keys") /\ In(ToFree, "consume")
    /\ ~In(ConsumeMove, "index") /\ ~In(ConsumeMove, "drop") /\ ~In(ConsumeMove, "hash") /\ ~In(ConsumeMove, "keys") /\ In(ConsumeMove, "consume")
    /\ ~In(ToMove, "index") /\ ~In(ToMove, "drop") /\ ~In(ToMove, "hash") /\ ~In(ToMove, "keys") /\ ~In(ToMove, "consume")
    /\ ~In(ToCreate, "index") /\ ~In(ToCreate, "drop") /\ ~In(ToCreate, "hash") /\ ~In(ToCreate, "keys") /\ ~In(ToCreate, "consume")
    /\ ~In(ToPatch, "index") /\ ~In(ToPatch, "drop") /\ ~In(ToPatch, "hash") /\ ~In(ToPatch, "keys") /\ ~In(ToPatch, "consume")
    /\ ~In(ToRemove, "index") /\ ~In(ToRemove, "drop") /\ ~In(ToRemove, "hash") /\ ~In(ToRemove, "keys") /\ ~In(ToRemove, "consume")
    /\ ~In(ToRemoveRole, "index") /\ ~In(ToRemoveRole, "drop") /\ ~In(ToRemoveRole, "hash") /\ ~In(ToRemoveRole, "keys") /\ ~In(ToRemoveRole, "consume")
<1>0. \A x \in {"index", "drop", "hash", "keys", "consume"} : ~In(<<>>, x)
  BY DEF In
<1>1. /\ In(ToAuthenticate, "index") /\ ~In(ToAuthenticate, "drop") /\ ~In(ToAuthenticate, "hash") /\ ~In(ToAuthenticate, "keys") /\ ~In(ToAuthenticate, "consume")
  BY DEF In, ToAuthenticate
<1>2. /\ In(ToCheck, "index") /\ In(ToCheck, "drop") /\ ~In(ToCheck, "hash") /\ ~In(ToCheck, "keys") /\ ~In(ToCheck, "consume")
  BY DEF In, ToCheck
<1>3. /\ In(ToLoad, "index") /\ In(ToLoad, "drop") /\ ~In(ToLoad, "hash") /\ ~In(ToLoad, "keys") /\ ~In(ToLoad, "consume")
  BY DEF In, ToLoad
<1>4. /\ In(ToRecall, "index") /\ In(ToRecall, "drop") /\ ~In(ToRecall, "hash") /\ ~In(ToRecall, "keys") /\ ~In(ToRecall, "consume")
  BY DEF In, ToRecall
<1>5. /\ In(ToDrop, "index") /\ In(ToDrop, "drop") /\ ~In(ToDrop, "hash") /\ ~In(ToDrop, "keys") /\ ~In(ToDrop, "consume")
  BY DEF In, ToDrop
<1>6. /\ In(ToUnindex, "index") /\ ~In(ToUnindex, "drop") /\ ~In(ToUnindex, "hash") /\ ~In(ToUnindex, "keys") /\ ~In(ToUnindex, "consume")
  BY DEF In, ToUnindex
<1>7. /\ In(ToMark, "index") /\ ~In(ToMark, "drop") /\ ~In(ToMark, "hash") /\ ~In(ToMark, "keys") /\ ~In(ToMark, "consume")
  BY DEF In, ToMark
<1>8. /\ In(ToIndex, "index") /\ ~In(ToIndex, "drop") /\ ~In(ToIndex, "hash") /\ ~In(ToIndex, "keys") /\ ~In(ToIndex, "consume")
  BY DEF In, ToIndex
<1>9. /\ ~In(OutRecall, "index") /\ In(OutRecall, "drop") /\ ~In(OutRecall, "hash") /\ ~In(OutRecall, "keys") /\ ~In(OutRecall, "consume")
  BY DEF In, OutRecall
<1>10. /\ ~In(OutDrop, "index") /\ In(OutDrop, "drop") /\ ~In(OutDrop, "hash") /\ ~In(OutDrop, "keys") /\ ~In(OutDrop, "consume")
  BY DEF In, OutDrop
<1>11. /\ ~In(OutUnindex, "index") /\ ~In(OutUnindex, "drop") /\ ~In(OutUnindex, "hash") /\ ~In(OutUnindex, "keys") /\ ~In(OutUnindex, "consume")
  BY DEF In, OutUnindex
<1>12. /\ ~In(ConsumeConfirm, "index") /\ ~In(ConsumeConfirm, "drop") /\ ~In(ConsumeConfirm, "hash") /\ ~In(ConsumeConfirm, "keys") /\ In(ConsumeConfirm, "consume")
  BY DEF In, ConsumeConfirm
<1>13. /\ ~In(ToConfirm, "index") /\ ~In(ToConfirm, "drop") /\ ~In(ToConfirm, "hash") /\ ~In(ToConfirm, "keys") /\ ~In(ToConfirm, "consume")
  BY DEF In, ToConfirm
<1>14. /\ ~In(ConsumeHash, "index") /\ ~In(ConsumeHash, "drop") /\ In(ConsumeHash, "hash") /\ In(ConsumeHash, "keys") /\ In(ConsumeHash, "consume")
  BY DEF In, ConsumeHash
<1>15. /\ ~In(ToHash, "index") /\ ~In(ToHash, "drop") /\ In(ToHash, "hash") /\ In(ToHash, "keys") /\ ~In(ToHash, "consume")
  BY DEF In, ToHash
<1>16. /\ ~In(ToRedeem, "index") /\ ~In(ToRedeem, "drop") /\ ~In(ToRedeem, "hash") /\ In(ToRedeem, "keys") /\ ~In(ToRedeem, "consume")
  BY DEF In, ToRedeem
<1>17. /\ ~In(ToList, "index") /\ ~In(ToList, "drop") /\ ~In(ToList, "hash") /\ In(ToList, "keys") /\ ~In(ToList, "consume")
  BY DEF In, ToList
<1>18. /\ ~In(ToSweep, "index") /\ ~In(ToSweep, "drop") /\ ~In(ToSweep, "hash") /\ In(ToSweep, "keys") /\ ~In(ToSweep, "consume")
  BY DEF In, ToSweep
<1>19. /\ ~In(ToKeys, "index") /\ ~In(ToKeys, "drop") /\ ~In(ToKeys, "hash") /\ In(ToKeys, "keys") /\ ~In(ToKeys, "consume")
  BY DEF In, ToKeys
<1>20. /\ ~In(ToFree, "index") /\ ~In(ToFree, "drop") /\ ~In(ToFree, "hash") /\ ~In(ToFree, "keys") /\ In(ToFree, "consume")
  BY DEF In, ToFree
<1>21. /\ ~In(ConsumeMove, "index") /\ ~In(ConsumeMove, "drop") /\ ~In(ConsumeMove, "hash") /\ ~In(ConsumeMove, "keys") /\ In(ConsumeMove, "consume")
  BY DEF In, ConsumeMove
<1>22. /\ ~In(ToMove, "index") /\ ~In(ToMove, "drop") /\ ~In(ToMove, "hash") /\ ~In(ToMove, "keys") /\ ~In(ToMove, "consume")
  BY DEF In, ToMove
<1>23. /\ ~In(ToCreate, "index") /\ ~In(ToCreate, "drop") /\ ~In(ToCreate, "hash") /\ ~In(ToCreate, "keys") /\ ~In(ToCreate, "consume")
  BY DEF In, ToCreate
<1>24. /\ ~In(ToPatch, "index") /\ ~In(ToPatch, "drop") /\ ~In(ToPatch, "hash") /\ ~In(ToPatch, "keys") /\ ~In(ToPatch, "consume")
  BY DEF In, ToPatch
<1>25. /\ ~In(ToRemove, "index") /\ ~In(ToRemove, "drop") /\ ~In(ToRemove, "hash") /\ ~In(ToRemove, "keys") /\ ~In(ToRemove, "consume")
  BY DEF In, ToRemove
<1>26. /\ ~In(ToRemoveRole, "index") /\ ~In(ToRemoveRole, "drop") /\ ~In(ToRemoveRole, "hash") /\ ~In(ToRemoveRole, "keys") /\ ~In(ToRemoveRole, "consume")
  BY DEF In, ToRemoveRole
<1> QED
  BY <1>0, <1>1, <1>2, <1>3, <1>4, <1>5, <1>6, <1>7, <1>8, <1>9, <1>10, <1>11, <1>12, <1>13, <1>14, <1>15, <1>16, <1>17, <1>18, <1>19, <1>20, <1>21, <1>22, <1>23, <1>24, <1>25, <1>26

(* The handlers that the properties of Accounts count. *)
Minters == {"load", "recall", "drop", "unindex", "mark", "index"}
Rotators == {"load", "recall", "drop", "out_recall", "out_drop"}
Changers == {"consume_hash", "hash", "redeem", "list", "sweep", "keys"}
Consumers == {"consume_confirm", "consume_hash", "free", "consume_move"}

LEMMA Meaning ==
    ASSUME NEW s \in Todos
    PROVE  /\ In(s, "index") /\ First(s) \notin {"authenticate", "check"} <=> Place(s) \in Minters
           /\ In(s, "drop") /\ First(s) # "check" <=> Place(s) \in Rotators
           /\ In(s, "hash") \/ In(s, "keys") <=> Place(s) \in Changers
           /\ In(s, "consume") <=> Place(s) \in Consumers

<1>0. CASE s = <<>>
  BY <1>0, Table, Left DEF Minters, Rotators, Changers, Consumers
<1>1. CASE s = ToAuthenticate
  BY <1>1, Table, Left DEF Minters, Rotators, Changers, Consumers
<1>2. CASE s = ToCheck
  BY <1>2, Table, Left DEF Minters, Rotators, Changers, Consumers
<1>3. CASE s = ToLoad
  BY <1>3, Table, Left DEF Minters, Rotators, Changers, Consumers
<1>4. CASE s = ToRecall
  BY <1>4, Table, Left DEF Minters, Rotators, Changers, Consumers
<1>5. CASE s = ToDrop
  BY <1>5, Table, Left DEF Minters, Rotators, Changers, Consumers
<1>6. CASE s = ToUnindex
  BY <1>6, Table, Left DEF Minters, Rotators, Changers, Consumers
<1>7. CASE s = ToMark
  BY <1>7, Table, Left DEF Minters, Rotators, Changers, Consumers
<1>8. CASE s = ToIndex
  BY <1>8, Table, Left DEF Minters, Rotators, Changers, Consumers
<1>9. CASE s = OutRecall
  BY <1>9, Table, Left DEF Minters, Rotators, Changers, Consumers
<1>10. CASE s = OutDrop
  BY <1>10, Table, Left DEF Minters, Rotators, Changers, Consumers
<1>11. CASE s = OutUnindex
  BY <1>11, Table, Left DEF Minters, Rotators, Changers, Consumers
<1>12. CASE s = ConsumeConfirm
  BY <1>12, Table, Left DEF Minters, Rotators, Changers, Consumers
<1>13. CASE s = ToConfirm
  BY <1>13, Table, Left DEF Minters, Rotators, Changers, Consumers
<1>14. CASE s = ConsumeHash
  BY <1>14, Table, Left DEF Minters, Rotators, Changers, Consumers
<1>15. CASE s = ToHash
  BY <1>15, Table, Left DEF Minters, Rotators, Changers, Consumers
<1>16. CASE s = ToRedeem
  BY <1>16, Table, Left DEF Minters, Rotators, Changers, Consumers
<1>17. CASE s = ToList
  BY <1>17, Table, Left DEF Minters, Rotators, Changers, Consumers
<1>18. CASE s = ToSweep
  BY <1>18, Table, Left DEF Minters, Rotators, Changers, Consumers
<1>19. CASE s = ToKeys
  BY <1>19, Table, Left DEF Minters, Rotators, Changers, Consumers
<1>20. CASE s = ToFree
  BY <1>20, Table, Left DEF Minters, Rotators, Changers, Consumers
<1>21. CASE s = ConsumeMove
  BY <1>21, Table, Left DEF Minters, Rotators, Changers, Consumers
<1>22. CASE s = ToMove
  BY <1>22, Table, Left DEF Minters, Rotators, Changers, Consumers
<1>23. CASE s = ToCreate
  BY <1>23, Table, Left DEF Minters, Rotators, Changers, Consumers
<1>24. CASE s = ToPatch
  BY <1>24, Table, Left DEF Minters, Rotators, Changers, Consumers
<1>25. CASE s = ToRemove
  BY <1>25, Table, Left DEF Minters, Rotators, Changers, Consumers
<1>26. CASE s = ToRemoveRole
  BY <1>26, Table, Left DEF Minters, Rotators, Changers, Consumers
<1> QED
  BY <1>0, <1>1, <1>2, <1>3, <1>4, <1>5, <1>6, <1>7, <1>8, <1>9, <1>10, <1>11, <1>12, <1>13, <1>14, <1>15, <1>16, <1>17, <1>18, <1>19, <1>20, <1>21, <1>22, <1>23, <1>24, <1>25, <1>26 DEF Todos

-----------------------------------------------------------------------------
(* The types of all variables, and what a thread knows of its handler: who  *)
(* the user is, of which link it comes, which token it is about to rotate.  *)
Sessions == [user : Users, from : Nat, password : Passwords \cup {NoPassword}]
Links == [kind : LinkKinds, user : Users, email : Emails, exp : Nat, to : Emails, effects : Nat]
Mails == [kind : LinkKinds, user : Users, email : Emails]
Calls == [todo : Todos, user : Users \cup {NoUser}, email : Emails \cup {""},
          password : Passwords \cup {NoPassword}, link : Nat, jti : Nat, listed : SUBSET Nat,
          mail : {"", "confirm", "invite"}, role : Roles \cup {NoRole},
          confirmed : BOOLEAN, claims : Tokens \cup {NoUser}]
Born(u) == users[u] # NoUser

At(c) == Place(c.todo)
Comes(c, kind) ==       \* the handler was given a link of that kind
    /\ c.link \in 1..Len(links) /\ links[c.link].kind = kind
    /\ links[c.link].user = c.user /\ links[c.link].email = c.email
Rotates(c) ==           \* the handler was given a refresh token
    c.jti \in 1..Len(sessions) /\ sessions[c.jti].user = c.user
Refreshing == {"check", "load", "recall", "drop", "unindex", "out_recall", "out_drop", "out_unindex"}
CallOK(c) ==
    /\ c \in Calls
    /\ At(c) \notin {"idle", "authenticate", "remove_role"} => c.user \in Users
    /\ At(c) \in {"consume_confirm", "confirm"} => Comes(c, "confirm")
    /\ At(c) \in {"free", "consume_move", "move"} => Comes(c, "email")
    /\ At(c) = "redeem" => Comes(c, "invite")
    /\ At(c) = "consume_hash" => Comes(c, "reset")
    /\ At(c) = "hash" => c.link = 0 \/ Comes(c, "reset")
    /\ At(c) \in Refreshing \cup {"index"} => Rotates(c)
    /\ At(c) = "mark" => c.jti = 0 \/ Rotates(c)
    /\ At(c) \in {"recall", "drop", "unindex", "mark", "index"} => c.claims \in Tokens /\ Born(c.user)
    /\ At(c) = "authenticate" => c.jti = 0
    /\ At(c) = "create" => c.email \in Emails /\ c.role \in Roles

Primary == [users |-> users, roles |-> roles]
TablesOK ==
    /\ Consistent(Primary) /\ Consistent(replica)
    /\ ~setup.lag => replica = Primary
    /\ \A u \in Users : IsRow(replica.users[u]) => Born(u)
SessionsOK ==
    /\ sessions \in Seq(Sessions)
    /\ \A j \in 1..Len(sessions) : sessions[j].from < j /\ Born(sessions[j].user)
    /\ live \subseteq 1..Len(sessions) /\ index \in [Users -> SUBSET (1..Len(sessions))]
LinksOK ==
    /\ links \in Seq(Links) /\ \A l \in 1..Len(links) : Born(links[l].user)
    /\ mails \subseteq Mails
    /\ \A r \in used : r.link \in 1..Len(links) /\ r.until \in Nat
RestOK ==
    /\ setup \in Setups /\ now \in Nat /\ calls \in Nat /\ faults \in Nat
    /\ access \subseteq Tokens
    /\ \A k \in keys : k.user \in Users /\ Exists(k.user)
CallsOK == call \in [Threads -> Calls] /\ \A t \in Threads : CallOK(call[t])
Types == TablesOK /\ SessionsOK /\ LinksOK /\ RestOK /\ CallsOK

-----------------------------------------------------------------------------
(* What a thread knows stays true: rows are never forgotten, only deleted,  *)
(* and the histories of sessions and links only grow.                       *)
Grows ==
    /\ Len(sessions) <= Len(sessions')
    /\ \A j \in 1..Len(sessions) : sessions'[j] = sessions[j]
    /\ Len(links) <= Len(links')
    /\ \A l \in 1..Len(links) : /\ links'[l].kind = links[l].kind
                                /\ links'[l].user = links[l].user
                                /\ links'[l].email = links[l].email
    /\ \A u \in Users : Born(u) => Born(u)'

LEMMA StillGrows ==
    ASSUME UNCHANGED <<users, sessions, links>>, Types PROVE Grows
  BY DEF Grows, Born, Types, SessionsOK, LinksOK

LEMMA CallKept ==
    ASSUME Types, Grows, NEW c, CallOK(c) PROVE CallOK(c)'
<1>1. Len(sessions) \in Nat /\ Len(links) \in Nat /\ Len(sessions') >= Len(sessions) /\ Len(links') >= Len(links)
  BY DEF Types, SessionsOK, LinksOK, Grows
<1>2. \A kind : Comes(c, kind) => Comes(c, kind)'
  BY <1>1 DEF Comes, Grows
<1>3. Rotates(c) => Rotates(c)'
  BY <1>1 DEF Rotates, Grows
<1>4. c.user \in Users /\ Born(c.user) => Born(c.user)'
  BY DEF Grows
<1>5. At(c)' = At(c)
  BY DEF At, Place
<1> QED
  BY <1>2, <1>3, <1>4, <1>5 DEF CallOK

Moves(t, c) == call' = [call EXCEPT ![t] = c]
Onward(c) == IF Ends(c.todo) THEN Blank ELSE [c EXCEPT !.todo = Rest(@)]

LEMMA CallsMove ==
    ASSUME Types, Grows, NEW t \in Threads, NEW c, CallOK(c)', Moves(t, c)
    PROVE  CallsOK'
<1>1. c \in Calls
  BY DEF CallOK
<1>2. call' \in [Threads -> Calls]
  BY <1>1 DEF Types, CallsOK, Moves
<1>3. ASSUME NEW u \in Threads PROVE CallOK(call[u])'
  <2>1. PICK d : d = call[u]
    OBVIOUS
  <2>2. CallOK(d)'
    BY <2>1, CallKept DEF Types, CallsOK
  <2>3. PICK e : e = call'[u]
    OBVIOUS
  <2>4. e = c \/ e = d
    BY <2>1, <2>3 DEF Types, CallsOK, Moves
  <2>5. CallOK(e)'
    BY <2>2, <2>4
  <2> QED
    BY <2>3, <2>5
<1> QED
  BY <1>2, <1>3 DEF CallsOK

LEMMA CallsStay ==
    ASSUME Types, Grows, call' = call PROVE CallsOK'
<1>1. ASSUME NEW u \in Threads PROVE CallOK(call[u])'
  <2>1. PICK d : d = call[u]
    OBVIOUS
  <2>2. CallOK(d)'
    BY <2>1, CallKept DEF Types, CallsOK
  <2> QED
    BY <2>1, <2>2
<1> QED
  BY <1>1 DEF CallsOK, Types

LEMMA BlankOK == Blank \in Calls /\ CallOK(Blank) /\ At(Blank) = "idle"
<1>1. Blank.todo = <<>> /\ <<>> \in Todos
  BY DEF Blank, Todos
<1>2. Blank \in Calls
  BY <1>1 DEF Blank, Calls
<1>3. At(Blank) = "idle"
  BY <1>1, Table DEF At
<1> QED
  BY <1>2, <1>3 DEF CallOK, Refreshing

LEMMA OnwardIs ==
    ASSUME NEW c \in Calls, At(c) # "idle"
    PROVE  /\ Onward(c) \in Calls
           /\ Ends(c.todo) => Onward(c) = Blank
           /\ ~Ends(c.todo) =>
                 /\ Onward(c).todo = Rest(c.todo) /\ Onward(c).user = c.user
                 /\ Onward(c).email = c.email /\ Onward(c).password = c.password
                 /\ Onward(c).link = c.link /\ Onward(c).jti = c.jti
                 /\ Onward(c).listed = c.listed /\ Onward(c).claims = c.claims
                 /\ Onward(c).role = c.role
<1>1. c.todo \in Todos /\ c.todo # <<>>
  BY Places DEF Calls, At
<1>2. ~Ends(c.todo) => Rest(c.todo) \in Todos
  BY <1>1, Continues
<1> QED
  BY <1>2, BlankOK DEF Onward, Calls

LEMMA Route ==
    ASSUME NEW c \in Calls, At(c) # "idle"
    PROVE  \/ At(c) \in Lasts /\ Onward(c) = Blank
           \/ /\ At(c) \notin Lasts /\ Follows(At(c), At(Onward(c)))
              /\ Onward(c).user = c.user /\ Onward(c).email = c.email
              /\ Onward(c).password = c.password /\ Onward(c).link = c.link
              /\ Onward(c).jti = c.jti /\ Onward(c).listed = c.listed
              /\ Onward(c).claims = c.claims /\ Onward(c).role = c.role
<1>1. c.todo \in Todos /\ c.todo # <<>>
  BY Places DEF Calls, At
<1>2. CASE Ends(c.todo)
  BY <1>1, <1>2, Continues, OnwardIs DEF At
<1>3. CASE ~Ends(c.todo)
  <2>1. Follows(Place(c.todo), Place(Rest(c.todo))) /\ Place(c.todo) \notin Lasts
    BY <1>1, <1>3, Continues
  <2> QED
    BY <1>3, <2>1, OnwardIs DEF At
<1> QED
  BY <1>2, <1>3

LEMMA OnwardOK ==
    ASSUME NEW c, CallOK(c), At(c) \notin {"idle", "authenticate", "load", "mark"}
    PROVE  CallOK(Onward(c))
<1>1. c \in Calls
  BY DEF CallOK
<1>2. CASE Onward(c) = Blank
  BY <1>2, BlankOK
<1>3. CASE Onward(c) # Blank
  <2>1. PICK d : d = Onward(c)
    OBVIOUS
  <2>2. /\ d \in Calls /\ Follows(At(c), At(d)) /\ d.user = c.user /\ d.email = c.email
        /\ d.link = c.link /\ d.jti = c.jti /\ d.claims = c.claims
    BY <1>1, <1>3, <2>1, OnwardIs, Route
  <2>3. /\ \A kind : Comes(c, kind) => Comes(d, kind)
        /\ Rotates(c) => Rotates(d)
    BY <2>2 DEF Comes, Rotates
  <2>4. CallOK(d)
    BY <2>2, <2>3 DEF CallOK, Follows, Refreshing
  <2> QED
    BY <2>1, <2>4
<1> QED
  BY <1>2, <1>3

-----------------------------------------------------------------------------
(* The handlers begin, *)
LEMMA RowFacts ==
    ASSUME NEW db, Consistent(db), NEW u \in Users, IsRow(db.users[u])
    PROVE  /\ db.users[u] \in Rows /\ db.roles[db.users[u].role] \in RoleRows
           /\ Claims(u, db) \in Tokens /\ Claims(u, db).user = u
<1>1. db.users[u] \in Rows
  BY DEF Consistent, IsRow
<1>2. db.users[u].role \in Roles /\ db.users[u].confirmed \in BOOLEAN
  BY <1>1 DEF Rows
<1>3. db.roles[db.users[u].role] \in RoleRows
  BY <1>2 DEF Consistent
<1>4. db.roles[db.users[u].role].admin \in BOOLEAN
  BY <1>3 DEF RoleRows
<1> QED
  BY <1>1, <1>2, <1>3, <1>4 DEF Claims, Tokens

LEMMA PrincipalsAre ==
    ASSUME Types PROVE Principals \subseteq Tokens
<1>1. ASSUME NEW k \in keys PROVE Claims(k.user, Primary) \in Tokens
  <2>1. k.user \in Users /\ Exists(k.user)
    BY DEF Types, RestOK
  <2>2. Consistent(Primary) /\ Primary.users = users
    BY DEF Types, TablesOK, Primary
  <2> QED
    BY <2>1, <2>2, RowFacts DEF Exists
<1> QED
  BY <1>1 DEF Principals, Types, RestOK, Primary

LEMMA ByEmailIs ==
    ASSUME NEW rows, NEW e, Taken(rows, e)
    PROVE  ByEmail(rows, e) \in Users /\ IsRow(rows[ByEmail(rows, e)]) /\ rows[ByEmail(rows, e)].email = e
  BY DEF Taken, ByEmail

(* Short sequences and what they are put together from. *)
LEMMA Three ==
    ASSUME NEW S, NEW s \in Seq(S), Len(s) = 3
    PROVE  s = <<s[1], s[2], s[3]>>
  OBVIOUS
LEMMA Four ==
    ASSUME NEW S, NEW s \in Seq(S), Len(s) = 4
    PROVE  s = <<s[1], s[2], s[3], s[4]>>
  OBVIOUS
LEMMA Five ==
    ASSUME NEW S, NEW s \in Seq(S), Len(s) = 5
    PROVE  s = <<s[1], s[2], s[3], s[4], s[5]>>
  OBVIOUS
LEMMA Seven ==
    ASSUME NEW S, NEW s \in Seq(S), Len(s) = 7
    PROVE  s = <<s[1], s[2], s[3], s[4], s[5], s[6], s[7]>>
  OBVIOUS

LEMMA CatThree ==
    ASSUME NEW a, NEW b, NEW c PROVE <<a>> \o <<b, c>> = <<a, b, c>>
<1>1. PICK n : n = <<a>> \o <<b, c>>
  OBVIOUS
<1>2. n \in Seq({a, b, c}) /\ Len(n) = 3 /\ n[1] = a /\ n[2] = b /\ n[3] = c
  BY <1>1
<1>4. n = <<n[1], n[2], n[3]>>
  BY <1>2, Three
<1> QED
  BY <1>1, <1>2, <1>4, Zenon

LEMMA CatFour ==
    ASSUME NEW a, NEW b, NEW c, NEW d PROVE <<a>> \o <<b, c, d>> = <<a, b, c, d>>
<1>1. PICK n : n = <<a>> \o <<b, c, d>>
  OBVIOUS
<1>2. n \in Seq({a, b, c, d}) /\ Len(n) = 4 /\ n[1] = a /\ n[2] = b /\ n[3] = c /\ n[4] = d
  BY <1>1
<1>4. n = <<n[1], n[2], n[3], n[4]>>
  BY <1>2, Four
<1> QED
  BY <1>1, <1>2, <1>4, Zenon

LEMMA CatFive ==
    ASSUME NEW a, NEW b, NEW c, NEW d, NEW e PROVE <<a, b>> \o <<c, d, e>> = <<a, b, c, d, e>>
<1>1. PICK n : n = <<a, b>> \o <<c, d, e>>
  OBVIOUS
<1>2. n \in Seq({a, b, c, d, e}) /\ Len(n) = 5 /\ n[1] = a /\ n[2] = b /\ n[3] = c /\ n[4] = d /\ n[5] = e
  BY <1>1
<1>4. n = <<n[1], n[2], n[3], n[4], n[5]>>
  BY <1>2, Five
<1> QED
  BY <1>1, <1>2, <1>4, Zenon

LEMMA CatSeven ==
    ASSUME NEW a, NEW b, NEW c, NEW d, NEW e, NEW f, NEW g
    PROVE  <<a, b, c, d, e>> \o <<f, g>> = <<a, b, c, d, e, f, g>>
<1>1. PICK n : n = <<a, b, c, d, e>> \o <<f, g>>
  OBVIOUS
<1>2. /\ n \in Seq({a, b, c, d, e, f, g}) /\ Len(n) = 7
      /\ n[1] = a /\ n[2] = b /\ n[3] = c /\ n[4] = d /\ n[5] = e /\ n[6] = f /\ n[7] = g
  BY <1>1
<1>4. n = <<n[1], n[2], n[3], n[4], n[5], n[6], n[7]>>
  BY <1>2, Seven
<1> QED
  BY <1>1, <1>2, <1>4, Zenon

LEMMA RoutesAre ==
    /\ <<"authenticate">> \o Mint = ToAuthenticate
    /\ <<"check", "load">> \o Drop \o Mint = ToCheck
    /\ Drop = OutRecall /\ Tail(<<"load">> \o Drop) = OutRecall /\ Len(<<"load">> \o Drop) = 4
    /\ <<"consume", "hash">> \o Evict = ConsumeHash
    /\ <<"redeem">> \o Evict = ToRedeem /\ <<"hash">> \o Evict = ToHash
<1>1. <<"load">> \o Drop = <<"load", "recall", "drop", "unindex">>
  BY CatFour DEF Drop
<1>2. <<"check", "load">> \o Drop \o Mint = ToCheck
  <2>1. <<"check", "load">> \o Drop = <<"check", "load", "recall", "drop", "unindex">>
    BY CatFive DEF Drop
  <2>2. <<"check", "load", "recall", "drop", "unindex">> \o Mint = ToCheck
    BY CatSeven DEF Mint, ToCheck
  <2> QED
    BY <2>1, <2>2, Zenon
<1>3. Tail(<<"load", "recall", "drop", "unindex">>) = OutRecall
  BY DEF OutRecall
<1>4. Len(<<"load", "recall", "drop", "unindex">>) = 4
  OBVIOUS
<1>5. <<"authenticate">> \o Mint = ToAuthenticate
  BY CatThree DEF Mint, ToAuthenticate
<1>6. <<"consume", "hash">> \o Evict = ConsumeHash
  BY CatFive DEF Evict, ConsumeHash
<1>7. <<"redeem">> \o Evict = ToRedeem /\ <<"hash">> \o Evict = ToHash
  BY CatFour DEF Evict, ToRedeem, ToHash
<1> QED
  BY <1>1, <1>2, <1>3, <1>4, <1>5, <1>6, <1>7 DEF Drop, OutRecall

(* What a handler starts with. *)
Starts == {"authenticate", "check", "out_recall", "create", "consume_confirm", "consume_hash",
           "free", "redeem", "hash", "patch", "remove", "remove_role"}
Fresh(c) ==
    /\ CallOK(c) /\ At(c) \in Starts /\ c.listed = {}
    /\ At(c) \in Consumers => now <= links[c.link].exp
    /\ At(c) \notin Consumers \cup {"redeem"} => c.link = 0
    /\ At(c) \in {"create", "hash"} => c.jti = 0
Begins(t, c) == call[t] = Blank /\ Fresh(c) /\ Moves(t, c) /\ calls' = calls + 1

Given(kind, s) == \/ kind = "confirm" /\ s = ConsumeConfirm
                  \/ kind = "reset" /\ s = ConsumeHash
                  \/ kind = "email" /\ s = ToFree
                  \/ kind = "invite" /\ s = ToRedeem

LEMMA LinkPlace ==
    ASSUME NEW kind, NEW s, Given(kind, s)
    PROVE  /\ s \in Todos
           /\ \/ kind = "confirm" /\ Place(s) = "consume_confirm"
              \/ kind = "reset" /\ Place(s) = "consume_hash"
              \/ kind = "email" /\ Place(s) = "free"
              \/ kind = "invite" /\ Place(s) = "redeem"
<1>1. CASE kind = "confirm" /\ s = ConsumeConfirm
  BY <1>1, Table DEF Todos
<1>2. CASE kind = "reset" /\ s = ConsumeHash
  BY <1>2, Table DEF Todos
<1>3. CASE kind = "email" /\ s = ToFree
  BY <1>3, Table DEF Todos
<1>4. CASE kind = "invite" /\ s = ToRedeem
  BY <1>4, Table DEF Todos
<1> QED
  BY <1>1, <1>2, <1>3, <1>4 DEF Given

LEMMA ByLink ==
    ASSUME Types, NEW l \in 1..Len(links), NEW kind, ValidLink(l, kind), NEW s, Given(kind, s),
           NEW c, NEW p \in Passwords \cup {NoPassword},
           \/ c = [WithLink(l) EXCEPT !.todo = s]
           \/ c = [WithLink(l) EXCEPT !.todo = s, !.password = p]
    PROVE  Fresh(c)
<1>1. links[l] \in Links /\ l \in Nat /\ s \in Todos
  BY LinkPlace DEF Types, LinksOK
<1>2. links[l].user \in Users /\ links[l].email \in Emails
  BY <1>1 DEF Links
<1>3. /\ c \in Calls /\ c.todo = s /\ c.link = l /\ c.user = links[l].user /\ c.user \in Users
      /\ c.email = links[l].email /\ c.listed = {}
  <2>1. CASE c = [WithLink(l) EXCEPT !.todo = s]
    BY <1>1, <1>2, <2>1 DEF Calls, WithLink, Blank
  <2>2. CASE c = [WithLink(l) EXCEPT !.todo = s, !.password = p]
    BY <1>1, <1>2, <2>2 DEF Calls, WithLink, Blank
  <2> QED
    BY <2>1, <2>2
<1>4. \/ kind = "confirm" /\ At(c) = "consume_confirm"
      \/ kind = "reset" /\ At(c) = "consume_hash"
      \/ kind = "email" /\ At(c) = "free"
      \/ kind = "invite" /\ At(c) = "redeem"
  BY <1>3, LinkPlace DEF At
<1>5. Comes(c, kind) /\ links[l].kind = kind /\ now <= links[l].exp
  BY <1>3 DEF Comes, ValidLink
<1>6. CallOK(c)
  BY <1>3, <1>4, <1>5 DEF CallOK, Refreshing
<1> QED
  BY <1>3, <1>4, <1>5, <1>6 DEF Fresh, Starts, Consumers

LEMMA ByUser ==
    ASSUME Types, NEW s \in {ToCreate, ToPatch, ToRemove, ToHash}, NEW u \in Users,
           NEW e \in Emails \cup {""}, NEW p \in Passwords \cup {NoPassword},
           NEW r \in Roles \cup {NoRole}, NEW m \in {"", "confirm", "invite"}, NEW b \in BOOLEAN,
           NEW c, s = ToCreate => e \in Emails /\ r \in Roles,
           c = [todo |-> s, user |-> u, email |-> e, password |-> p, link |-> 0, jti |-> 0,
                listed |-> {}, mail |-> m, role |-> r, confirmed |-> b, claims |-> NoUser]
    PROVE  Fresh(c)
<1>1. s \in Todos
  BY DEF Todos
<1>2. c \in Calls
  BY <1>1 DEF Calls
<1>3. /\ s = ToCreate => At(c) = "create"
      /\ s = ToPatch => At(c) = "patch"
      /\ s = ToRemove => At(c) = "remove"
      /\ s = ToHash => At(c) = "hash"
  <2>1. c.todo = s
    OBVIOUS
  <2>2. CASE s = ToCreate
    BY <2>1, <2>2, Table DEF At
  <2>3. CASE s = ToPatch
    BY <2>1, <2>3, Table DEF At
  <2>4. CASE s = ToRemove
    BY <2>1, <2>4, Table DEF At
  <2>5. CASE s = ToHash
    BY <2>1, <2>5, Table DEF At
  <2> QED
    BY <2>2, <2>3, <2>4, <2>5
<1>4. c.user \in Users /\ c.link = 0 /\ c.jti = 0 /\ c.listed = {} /\ c.email = e /\ c.role = r
  OBVIOUS
<1>5. CallOK(c)
  BY <1>2, <1>3, <1>4 DEF CallOK, Refreshing
<1> QED
  BY <1>3, <1>4, <1>5 DEF Fresh, Starts, Consumers

LEMMA ByToken ==
    ASSUME Types, NEW s \in {ToCheck, OutRecall}, NEW j \in 1..Len(sessions), NEW c,
           c = [Blank EXCEPT !.todo = s, !.user = sessions[j].user, !.jti = j]
    PROVE  Fresh(c)
<1>1. s \in Todos
  BY DEF Todos
<1>2. sessions[j] \in Sessions /\ j \in Nat
  BY DEF Types, SessionsOK
<1>3. c \in Calls /\ c.user = sessions[j].user /\ c.user \in Users /\ c.jti = j /\ c.link = 0 /\ c.listed = {} /\ c.todo = s
  BY <1>1, <1>2 DEF Calls, Blank, Sessions
<1>4. /\ s = ToCheck => At(c) = "check"
      /\ s = OutRecall => At(c) = "out_recall"
  <2>1. CASE s = ToCheck
    BY <1>3, <2>1, Table DEF At
  <2>2. CASE s = OutRecall
    BY <1>3, <2>2, Table DEF At
  <2> QED
    BY <2>1, <2>2
<1>5. Rotates(c)
  BY <1>3 DEF Rotates
<1>6. CallOK(c)
  BY <1>3, <1>4, <1>5 DEF CallOK, Refreshing
<1> QED
  BY <1>3, <1>4, <1>6 DEF Fresh, Starts, Consumers

LEMMA ByPassword ==
    ASSUME NEW e \in Emails, NEW p \in Passwords, NEW c,
           c = [Blank EXCEPT !.todo = ToAuthenticate, !.email = e, !.password = p]
    PROVE  Fresh(c)
<1>1. ToAuthenticate \in Todos
  BY DEF Todos
<1>2. c \in Calls /\ c.jti = 0 /\ c.link = 0 /\ c.listed = {} /\ c.todo = ToAuthenticate
  BY <1>1 DEF Calls, Blank
<1>3. At(c) = "authenticate"
  BY <1>2, Table DEF At
<1>4. CallOK(c)
  BY <1>2, <1>3 DEF CallOK, Refreshing
<1> QED
  BY <1>2, <1>3, <1>4 DEF Fresh, Starts, Consumers

LEMMA ByRole ==
    ASSUME NEW r \in Roles, NEW c, c = [Blank EXCEPT !.todo = ToRemoveRole, !.role = r]
    PROVE  Fresh(c)
<1>1. ToRemoveRole \in Todos
  BY DEF Todos
<1>2. c \in Calls /\ c.jti = 0 /\ c.link = 0 /\ c.listed = {} /\ c.todo = ToRemoveRole
  BY <1>1 DEF Calls, Blank
<1>3. At(c) = "remove_role"
  BY <1>2, Table DEF At
<1>4. CallOK(c)
  BY <1>2, <1>3 DEF CallOK, Refreshing
<1> QED
  BY <1>2, <1>3, <1>4 DEF Fresh, Starts, Consumers

LEMMA HandlersBegin ==
    ASSUME Types, NEW t \in Threads, Handlers(t)
    PROVE  \E c : Begins(t, c)
<1>1. ASSUME NEW op, NEW c, Begin(t, op, c), Fresh(c) PROVE Begins(t, c)
  BY <1>1 DEF Begin, Begins, Moves
<1>2. CASE \E e \in Emails, p \in Passwords : Login(t, e, p)
  <2>1. PICK e \in Emails, p \in Passwords : Login(t, e, p)
    BY <1>2
  <2>2. PICK c : c = [Blank EXCEPT !.todo = <<"authenticate">> \o Mint, !.email = e, !.password = p]
    OBVIOUS
  <2>3. Begin(t, "login", c)
    BY <2>1, <2>2 DEF Login
  <2>4. Fresh(c)
    BY <2>2, RoutesAre, ByPassword
  <2> QED
    BY <1>1, <2>3, <2>4
<1>3. CASE \E e \in Emails, p \in Passwords, u \in Users : RegisterUser(t, u, e, p)
  <2>1. PICK e \in Emails, p \in Passwords, u \in Users : RegisterUser(t, u, e, p)
    BY <1>3
  <2>2. PICK r \in Roles : Begin(t, "register", [Blank EXCEPT !.todo = <<"create">>, !.user = u, !.email = e,
                                  !.password = p, !.role = r, !.mail = "confirm"])
    BY <2>1 DEF RegisterUser
  <2>3. PICK c : c = [Blank EXCEPT !.todo = <<"create">>, !.user = u, !.email = e,
                                  !.password = p, !.role = r, !.mail = "confirm"]
    OBVIOUS
  <2>4. Fresh(c)
    <3>1. c = [todo |-> ToCreate, user |-> u, email |-> e, password |-> p, link |-> 0,
               jti |-> 0, listed |-> {}, mail |-> "confirm", role |-> r,
               confirmed |-> FALSE, claims |-> NoUser]
      BY <2>3 DEF Blank, ToCreate
    <3> QED
      BY <3>1, ByUser
  <2> QED
    BY <1>1, <2>2, <2>3, <2>4
<1>4. CASE \E j \in 1..Len(sessions) : Refresh(t, j)
  <2>1. PICK j \in 1..Len(sessions) : Refresh(t, j)
    BY <1>4
  <2>2. PICK c : c = [Blank EXCEPT !.todo = <<"check", "load">> \o Drop \o Mint,
                                   !.user = sessions[j].user, !.jti = j]
    OBVIOUS
  <2>3. Begin(t, "refresh", c)
    BY <2>1, <2>2 DEF Refresh
  <2>4. Fresh(c)
    BY <2>2, RoutesAre, ByToken
  <2> QED
    BY <1>1, <2>3, <2>4
<1>5. CASE \E j \in 1..Len(sessions) : Logout(t, j)
  <2>1. PICK j \in 1..Len(sessions) : Logout(t, j)
    BY <1>5
  <2>2. PICK c : c = [Blank EXCEPT !.todo = Drop, !.user = sessions[j].user, !.jti = j]
    OBVIOUS
  <2>3. Begin(t, "logout", c)
    BY <2>1, <2>2 DEF Logout
  <2>4. Fresh(c)
    BY <2>2, RoutesAre, ByToken
  <2> QED
    BY <1>1, <2>3, <2>4
<1>6. CASE \E l \in 1..Len(links) : Confirm(t, l)
  <2>1. PICK l \in 1..Len(links) : Confirm(t, l)
    BY <1>6
  <2>2. PICK c : c = [WithLink(l) EXCEPT !.todo = <<"consume", "confirm">>]
    OBVIOUS
  <2>3. Begin(t, "confirm", c) /\ ValidLink(l, "confirm")
    BY <2>1, <2>2 DEF Confirm
  <2>4. c = [WithLink(l) EXCEPT !.todo = ConsumeConfirm]
    BY <2>2 DEF ConsumeConfirm
  <2>5. Fresh(c)
    BY <2>3, <2>4, ByLink DEF Given
  <2> QED
    BY <1>1, <2>3, <2>5
<1>7. CASE \E l \in 1..Len(links) : ApplyChangeEmail(t, l)
  <2>1. PICK l \in 1..Len(links) : ApplyChangeEmail(t, l)
    BY <1>7
  <2>2. PICK c : c = [WithLink(l) EXCEPT !.todo = <<"free", "consume", "move">>]
    OBVIOUS
  <2>3. Begin(t, "email", c) /\ ValidLink(l, "email")
    BY <2>1, <2>2 DEF ApplyChangeEmail
  <2>4. c = [WithLink(l) EXCEPT !.todo = ToFree]
    BY <2>2 DEF ToFree
  <2>5. Fresh(c)
    BY <2>3, <2>4, ByLink DEF Given
  <2> QED
    BY <1>1, <2>3, <2>5
<1>8. CASE \E l \in 1..Len(links), p \in Passwords : ApplyReset(t, l, p)
  <2>1. PICK l \in 1..Len(links), p \in Passwords : ApplyReset(t, l, p)
    BY <1>8
  <2>2. PICK c : c = [WithLink(l) EXCEPT !.todo = <<"consume", "hash">> \o Evict, !.password = p]
    OBVIOUS
  <2>3. Begin(t, "reset", c) /\ ValidLink(l, "reset")
    BY <2>1, <2>2 DEF ApplyReset
  <2>4. c = [WithLink(l) EXCEPT !.todo = ConsumeHash, !.password = p]
    BY <2>2, RoutesAre
  <2>5. Fresh(c)
    BY <2>3, <2>4, ByLink DEF Given
  <2> QED
    BY <1>1, <2>3, <2>5
<1>9. CASE \E l \in 1..Len(links), p \in Passwords : JoinFromInvite(t, l, p)
  <2>1. PICK l \in 1..Len(links), p \in Passwords : JoinFromInvite(t, l, p)
    BY <1>9
  <2>2. PICK c : c = [WithLink(l) EXCEPT !.todo = <<"redeem">> \o Evict, !.password = p]
    OBVIOUS
  <2>3. Begin(t, "join", c) /\ ValidLink(l, "invite")
    BY <2>1, <2>2 DEF JoinFromInvite
  <2>4. c = [WithLink(l) EXCEPT !.todo = ToRedeem, !.password = p]
    BY <2>2, RoutesAre
  <2>5. Fresh(c)
    BY <2>3, <2>4, ByLink DEF Given
  <2> QED
    BY <1>1, <2>3, <2>5
<1>10. CASE \E c \in Principals, old, new \in Passwords : ChangePassword(t, c, old, new)
  <2>1. PICK p \in Principals, old \in Passwords, new \in Passwords : ChangePassword(t, p, old, new)
    BY <1>10
  <2>2. PICK c : c = [Blank EXCEPT !.todo = <<"hash">> \o Evict, !.user = p.user, !.password = new]
    OBVIOUS
  <2>3. Begin(t, "change", c)
    BY <2>1, <2>2 DEF ChangePassword
  <2>4. p.user \in Users
    BY PrincipalsAre DEF Tokens
  <2>5. c = [Blank EXCEPT !.todo = ToHash, !.user = p.user, !.password = new]
    BY <2>2, RoutesAre
  <2>6. Fresh(c)
    <3>1. c = [todo |-> ToHash, user |-> p.user, email |-> "", password |-> new, link |-> 0,
               jti |-> 0, listed |-> {}, mail |-> "", role |-> NoRole,
               confirmed |-> FALSE, claims |-> NoUser]
      BY <2>5 DEF Blank
    <3> QED
      BY <2>4, <3>1, ByUser, Table
  <2> QED
    BY <1>1, <2>3, <2>6
<1>11. CASE \E c \in Principals, u \in Users, e \in Emails, r \in Roles : InviteUser(t, c, u, e, r)
  <2>1. PICK p \in Principals, u \in Users, e \in Emails, r \in Roles : InviteUser(t, p, u, e, r)
    BY <1>11
  <2>2. PICK c : c = [Blank EXCEPT !.todo = <<"create">>, !.user = u, !.email = e, !.role = r,
                                   !.mail = "invite"]
    OBVIOUS
  <2>3. Begin(t, "invite", c)
    BY <2>1, <2>2 DEF InviteUser, AdminBegin
  <2>4. Fresh(c)
    <3>1. c = [todo |-> ToCreate, user |-> u, email |-> e, password |-> NoPassword, link |-> 0,
               jti |-> 0, listed |-> {}, mail |-> "invite", role |-> r,
               confirmed |-> FALSE, claims |-> NoUser]
      BY <2>2 DEF Blank, ToCreate
    <3> QED
      BY <3>1, ByUser
  <2> QED
    BY <1>1, <2>3, <2>4
<1>12. CASE \E c \in Principals, u \in Users, e \in Emails, r \in Roles, p \in Passwords :
               CreateUser(t, c, u, e, p, r)
  <2>1. PICK a \in Principals, u \in Users, e \in Emails, r \in Roles, p \in Passwords :
            CreateUser(t, a, u, e, p, r)
    BY <1>12
  <2>2. PICK c : c = [Blank EXCEPT !.todo = <<"create">>, !.user = u, !.email = e,
                                   !.password = p, !.role = r, !.confirmed = TRUE]
    OBVIOUS
  <2>3. Begin(t, "create", c)
    BY <2>1, <2>2 DEF CreateUser, AdminBegin
  <2>4. Fresh(c)
    <3>1. c = [todo |-> ToCreate, user |-> u, email |-> e, password |-> p, link |-> 0,
               jti |-> 0, listed |-> {}, mail |-> "", role |-> r,
               confirmed |-> TRUE, claims |-> NoUser]
      BY <2>2 DEF Blank, ToCreate
    <3> QED
      BY <3>1, ByUser
  <2> QED
    BY <1>1, <2>3, <2>4
<1>13. CASE \E c \in Principals, u \in Users, e \in Emails \cup {""}, r \in Roles \cup {NoRole} :
               UpdateUser(t, c, u, e, r)
  <2>1. PICK p \in Principals, u \in Users, e \in Emails \cup {""}, r \in Roles \cup {NoRole} :
            UpdateUser(t, p, u, e, r)
    BY <1>13
  <2>2. PICK c : c = [Blank EXCEPT !.todo = <<"patch">>, !.user = u, !.email = e, !.role = r]
    OBVIOUS
  <2>3. Begin(t, "update", c)
    BY <2>1, <2>2 DEF UpdateUser, AdminBegin
  <2>4. Fresh(c)
    <3>1. c = [todo |-> ToPatch, user |-> u, email |-> e, password |-> NoPassword, link |-> 0,
               jti |-> 0, listed |-> {}, mail |-> "", role |-> r,
               confirmed |-> FALSE, claims |-> NoUser]
      BY <2>2 DEF Blank, ToPatch
    <3> QED
      BY <3>1, ByUser, Table
  <2> QED
    BY <1>1, <2>3, <2>4
<1>14. CASE \E c \in Principals, u \in Users : DeleteUser(t, c, u)
  <2>1. PICK p \in Principals, u \in Users : DeleteUser(t, p, u)
    BY <1>14
  <2>2. PICK c : c = [Blank EXCEPT !.todo = <<"remove">>, !.user = u]
    OBVIOUS
  <2>3. Begin(t, "delete", c)
    BY <2>1, <2>2 DEF DeleteUser, AdminBegin
  <2>4. Fresh(c)
    <3>1. c = [todo |-> ToRemove, user |-> u, email |-> "", password |-> NoPassword, link |-> 0,
               jti |-> 0, listed |-> {}, mail |-> "", role |-> NoRole,
               confirmed |-> FALSE, claims |-> NoUser]
      BY <2>2 DEF Blank, ToRemove
    <3> QED
      BY <3>1, ByUser, Table
  <2> QED
    BY <1>1, <2>3, <2>4
<1>15. CASE \E c \in Principals, r \in Roles : DeleteRole(t, c, r)
  <2>1. PICK p \in Principals, r \in Roles : DeleteRole(t, p, r)
    BY <1>15
  <2>2. PICK c : c = [Blank EXCEPT !.todo = <<"remove_role">>, !.role = r]
    OBVIOUS
  <2>3. Begin(t, "delete_role", c)
    BY <2>1, <2>2 DEF DeleteRole, AdminBegin
  <2>4. Fresh(c)
    BY <2>2, ByRole DEF ToRemoveRole
  <2> QED
    BY <1>1, <2>3, <2>4
<1> QED
  BY <1>2, <1>3, <1>4, <1>5, <1>6, <1>7, <1>8, <1>9, <1>10, <1>11, <1>12, <1>13, <1>14, <1>15
     DEF Handlers

-----------------------------------------------------------------------------
(* What may be written to the tables. *)
LEMMA RowsAre ==
    ASSUME NEW row \in Rows
    PROVE  IsRow(row) /\ row # NoUser
  BY NamesAssumption DEF IsRow

LEMMA PutRowOK ==
    ASSUME NEW db, Consistent(db), NEW u \in Users, NEW row \in Rows,
           db.roles[row.role] # NoRole,
           \A v \in Users : v # u /\ IsRow(db.users[v]) => db.users[v].email # row.email,
           NEW n, n = [db.users EXCEPT ![u] = row]
    PROVE  Consistent([users |-> n, roles |-> db.roles])
<1>1. /\ db.users \in [Users -> {NoUser, Gone} \cup Rows]
      /\ db.roles \in [Roles -> {NoRole} \cup RoleRows]
  BY DEF Consistent
<1>2. /\ n \in [Users -> {NoUser, Gone} \cup Rows] /\ n[u] = row
      /\ \A v \in Users : v # u => n[v] = db.users[v]
  BY <1>1
<1>3. ASSUME NEW v \in Users, IsRow(n[v])
      PROVE  /\ db.roles[n[v].role] # NoRole
             /\ \A w \in Users : IsRow(n[w]) /\ n[w].email = n[v].email => w = v
  <2>1. CASE v = u
    BY <1>2, <2>1
  <2>2. CASE v # u
    <3>1. n[v] = db.users[v] /\ IsRow(db.users[v])
      BY <1>2, <1>3, <2>2
    <3>2. db.roles[db.users[v].role] # NoRole
      BY <3>1 DEF Consistent
    <3>3. ASSUME NEW w \in Users, IsRow(n[w]), n[w].email = n[v].email PROVE w = v
      <4>1. CASE w = u
        BY <1>2, <2>2, <3>1, <3>3, <4>1
      <4>2. CASE w # u
        <5>1. n[w] = db.users[w]
          BY <1>2, <4>2
        <5> QED
          BY <3>1, <3>3, <5>1 DEF Consistent
      <4> QED
        BY <4>1, <4>2
    <3> QED
      BY <3>1, <3>2, <3>3
  <2> QED
    BY <2>1, <2>2
<1>4. PICK e : e = [users |-> n, roles |-> db.roles]
  OBVIOUS
<1>5. e.users = n /\ e.roles = db.roles
  BY <1>4
<1>6. \A r, s \in Roles :
          (/\ e.roles[r] # NoRole /\ e.roles[r].default
           /\ e.roles[s] # NoRole /\ e.roles[s].default) => r = s
  BY <1>5 DEF Consistent
<1>7. e \in [users : [Users -> {NoUser, Gone} \cup Rows], roles : [Roles -> {NoRole} \cup RoleRows]]
  BY <1>1, <1>2, <1>4
<1> QED
  BY <1>3, <1>4, <1>5, <1>6, <1>7 DEF Consistent

LEMMA DropRowOK ==
    ASSUME NEW db, Consistent(db), NEW u \in Users, NEW n, n = [db.users EXCEPT ![u] = Gone]
    PROVE  Consistent([users |-> n, roles |-> db.roles])
<1>1. /\ db.users \in [Users -> {NoUser, Gone} \cup Rows]
      /\ db.roles \in [Roles -> {NoRole} \cup RoleRows]
  BY DEF Consistent
<1>2. /\ n \in [Users -> {NoUser, Gone} \cup Rows] /\ ~IsRow(n[u])
      /\ \A v \in Users : v # u => n[v] = db.users[v]
  BY <1>1 DEF IsRow
<1>3. \A v \in Users : IsRow(n[v]) => v # u /\ n[v] = db.users[v] /\ IsRow(db.users[v])
  BY <1>2
<1>4. PICK e : e = [users |-> n, roles |-> db.roles]
  OBVIOUS
<1>5. e.users = n /\ e.roles = db.roles
  BY <1>4
<1>6. \A v \in Users : IsRow(e.users[v]) =>
          /\ e.roles[e.users[v].role] # NoRole
          /\ \A w \in Users : IsRow(e.users[w]) /\ e.users[w].email = e.users[v].email => w = v
  BY <1>3, <1>5 DEF Consistent
<1>7. \A r, s \in Roles :
          (/\ e.roles[r] # NoRole /\ e.roles[r].default
           /\ e.roles[s] # NoRole /\ e.roles[s].default) => r = s
  BY <1>5 DEF Consistent
<1>8. e \in [users : [Users -> {NoUser, Gone} \cup Rows], roles : [Roles -> {NoRole} \cup RoleRows]]
  BY <1>1, <1>2, <1>4
<1> QED
  BY <1>4, <1>6, <1>7, <1>8 DEF Consistent

LEMMA PutRolesOK ==
    ASSUME NEW db, Consistent(db), NEW n, n \in [Roles -> {NoRole} \cup RoleRows],
           \A u \in Users : IsRow(db.users[u]) => n[db.users[u].role] # NoRole,
           \A r, s \in Roles : (/\ n[r] # NoRole /\ n[r].default
                                /\ n[s] # NoRole /\ n[s].default) => r = s
    PROVE  Consistent([users |-> db.users, roles |-> n])
<1>1. db.users \in [Users -> {NoUser, Gone} \cup Rows]
  BY DEF Consistent
<1>2. PICK e : e = [users |-> db.users, roles |-> n]
  OBVIOUS
<1>3. e.users = db.users /\ e.roles = n
  BY <1>2
<1>4. \A v \in Users : IsRow(e.users[v]) =>
          \A w \in Users : IsRow(e.users[w]) /\ e.users[w].email = e.users[v].email => w = v
  BY <1>3 DEF Consistent
<1>5. e \in [users : [Users -> {NoUser, Gone} \cup Rows], roles : [Roles -> {NoRole} \cup RoleRows]]
  BY <1>1, <1>2
<1> QED
  BY <1>2, <1>3, <1>4, <1>5 DEF Consistent

(* The replica follows at once or later. *)
LEMMA ReplicaFollows ==
    ASSUME Types, setup' = setup, Consistent(Primary'),
           \A u \in Users : Born(u) => Born(u)',
           \/ setup.lag /\ replica' = replica
           \/ ~setup.lag /\ replica' = Primary'
           \/ replica' = Primary'
    PROVE  TablesOK'
<1>1. Consistent(replica')
  BY DEF Types, TablesOK
<1>2. ASSUME NEW u \in Users, IsRow(replica'.users[u]) PROVE Born(u)'
  <2>1. CASE replica' = replica
    BY <1>2, <2>1 DEF Types, TablesOK
  <2>2. CASE replica' = Primary'
    <3>1. replica'.users = users'
      BY <2>2 DEF Primary
    <3> QED
      BY <1>2, <3>1 DEF IsRow, Born
  <2> QED
    BY <2>1, <2>2
<1>3. Consistent(replica)' /\ Consistent(Primary)'
  BY <1>1
<1> QED
  BY <1>1, <1>2, <1>3 DEF TablesOK

LEMMA WriteUsersIs ==
    ASSUME Types, setup' = setup, NEW rows, WriteUsers(rows)
    PROVE  /\ users' = rows /\ roles' = roles /\ Primary' = [users |-> rows, roles |-> roles]
           /\ \/ setup.lag /\ replica' = replica
              \/ ~setup.lag /\ replica' = Primary'
<1>1. users' = rows /\ roles' = roles /\ Primary' = [users |-> rows, roles |-> roles]
  BY DEF WriteUsers, Primary
<1>2. CASE setup.lag
  BY <1>1, <1>2 DEF WriteUsers
<1>3. CASE ~setup.lag
  <2>1. replica = [users |-> users, roles |-> roles]
    BY <1>3 DEF Types, TablesOK, Primary
  <2>2. replica' = [replica EXCEPT !.users = rows]
    BY <1>3 DEF WriteUsers
  <2>3. replica' = [users |-> rows, roles |-> roles]
    BY <2>1, <2>2
  <2> QED
    BY <1>1, <1>3, <2>3
<1> QED
  BY <1>1, <1>2, <1>3

LEMMA WriteRolesIs ==
    ASSUME Types, setup' = setup, NEW rows, WriteRoles(rows)
    PROVE  /\ users' = users /\ roles' = rows /\ Primary' = [users |-> users, roles |-> rows]
           /\ \/ setup.lag /\ replica' = replica
              \/ ~setup.lag /\ replica' = Primary'
<1>1. users' = users /\ roles' = rows /\ Primary' = [users |-> users, roles |-> rows]
  BY DEF WriteRoles, Primary
<1>2. CASE setup.lag
  BY <1>1, <1>2 DEF WriteRoles
<1>3. CASE ~setup.lag
  <2>1. replica = [users |-> users, roles |-> roles]
    BY <1>3 DEF Types, TablesOK, Primary
  <2>2. replica' = [replica EXCEPT !.roles = rows]
    BY <1>3 DEF WriteRoles
  <2>3. replica' = [users |-> users, roles |-> rows]
    BY <2>1, <2>2
  <2> QED
    BY <1>1, <1>3, <2>3
<1> QED
  BY <1>1, <1>2, <1>3

LEMMA PutRow ==
    ASSUME Types, setup' = setup, NEW u \in Users, NEW row \in Rows, roles[row.role] # NoRole,
           \A v \in Users : v # u /\ Exists(v) => users[v].email # row.email,
           Update(u, row)
    PROVE  /\ TablesOK' /\ \A v \in Users : Born(v) => Born(v)'
           /\ \A v \in Users : Exists(v) => Exists(v)'
           /\ users' = [users EXCEPT ![u] = row] /\ roles' = roles
<1>1. Consistent(Primary) /\ Primary.users = users /\ Primary.roles = roles
  BY DEF Types, TablesOK, Primary
<1>2. PICK n : n = [users EXCEPT ![u] = row]
  OBVIOUS
<1>3. /\ users' = n /\ roles' = roles /\ Primary' = [users |-> n, roles |-> roles]
      /\ \/ setup.lag /\ replica' = replica
         \/ ~setup.lag /\ replica' = Primary'
  BY <1>2, WriteUsersIs DEF Update
<1>4. Consistent(Primary')
  BY <1>1, <1>2, <1>3, PutRowOK DEF Exists
<1>5. users \in [Users -> {NoUser, Gone} \cup Rows]
  BY <1>1 DEF Consistent
<1>6. \A v \in Users : n[v] = IF v = u THEN row ELSE users[v]
  BY <1>2, <1>5
<1>7. \A v \in Users : Born(v) => Born(v)'
  BY <1>3, <1>6, RowsAre DEF Born
<1>8. \A v \in Users : Exists(v) => Exists(v)'
  BY <1>3, <1>6, RowsAre DEF Exists
<1> QED
  BY <1>2, <1>3, <1>4, <1>7, <1>8, ReplicaFollows

LEMMA DropRow ==
    ASSUME Types, setup' = setup, NEW u \in Users, Exists(u), Update(u, Gone)
    PROVE  /\ TablesOK' /\ \A v \in Users : Born(v) => Born(v)'
           /\ \A v \in Users : Exists(v) /\ v # u => Exists(v)'
           /\ users' = [users EXCEPT ![u] = Gone] /\ roles' = roles
<1>1. Consistent(Primary) /\ Primary.users = users /\ Primary.roles = roles
  BY DEF Types, TablesOK, Primary
<1>2. PICK n : n = [users EXCEPT ![u] = Gone]
  OBVIOUS
<1>3. /\ users' = n /\ roles' = roles /\ Primary' = [users |-> n, roles |-> roles]
      /\ \/ setup.lag /\ replica' = replica
         \/ ~setup.lag /\ replica' = Primary'
  BY <1>2, WriteUsersIs DEF Update
<1>4. Consistent(Primary')
  BY <1>1, <1>2, <1>3, DropRowOK
<1>5. users \in [Users -> {NoUser, Gone} \cup Rows]
  BY <1>1 DEF Consistent
<1>6. \A v \in Users : n[v] = IF v = u THEN Gone ELSE users[v]
  BY <1>2, <1>5
<1>7. \A v \in Users : Born(v) => Born(v)'
  BY <1>3, <1>6, NamesAssumption DEF Born
<1>8. \A v \in Users : Exists(v) /\ v # u => Exists(v)'
  BY <1>3, <1>6 DEF Exists
<1> QED
  BY <1>2, <1>3, <1>4, <1>7, <1>8, ReplicaFollows

LEMMA PutRoles ==
    ASSUME Types, setup' = setup, NEW rows \in [Roles -> {NoRole} \cup RoleRows], WriteRoles(rows),
           \A u \in Users : Exists(u) => rows[users[u].role] # NoRole,
           \A r, s \in Roles : (/\ rows[r] # NoRole /\ rows[r].default
                                /\ rows[s] # NoRole /\ rows[s].default) => r = s
    PROVE  TablesOK' /\ users' = users
<1>1. Consistent(Primary) /\ Primary.users = users /\ Primary.roles = roles
  BY DEF Types, TablesOK, Primary
<1>2. /\ users' = users /\ roles' = rows /\ Primary' = [users |-> users, roles |-> rows]
      /\ \/ setup.lag /\ replica' = replica
         \/ ~setup.lag /\ replica' = Primary'
  BY WriteRolesIs
<1>3. Consistent(Primary')
  BY <1>1, <1>2, PutRolesOK DEF Exists
<1>4. \A v \in Users : Born(v) => Born(v)'
  BY <1>2 DEF Born
<1> QED
  BY <1>2, <1>3, <1>4, ReplicaFollows

LEMMA TablesStay ==
    ASSUME Types, UNCHANGED <<setup, users, roles>>, replica' = replica \/ replica' = Primary
    PROVE  TablesOK' /\ \A v \in Users : Born(v) => Born(v)'
<1>1. Primary' = Primary
  BY DEF Primary
<1>2. Consistent(Primary)' /\ Consistent(replica)'
  <2>1. Consistent(Primary') /\ Consistent(replica')
    BY <1>1 DEF Types, TablesOK
  <2> QED
    BY <2>1
<1>3. \A v \in Users : Born(v)' = Born(v) /\ (IsRow(Primary.users[v]) => Born(v))
  BY DEF Born, IsRow, Primary
<1>4. \A u \in Users : IsRow(replica'.users[u]) => Born(u)'
  BY <1>3 DEF Types, TablesOK
<1>5. ~setup'.lag => replica' = Primary'
  BY <1>1 DEF Types, TablesOK
<1> QED
  BY <1>2, <1>3, <1>4, <1>5 DEF TablesOK

-----------------------------------------------------------------------------
(* The next command of a thread. *)
LEMMA AtHead ==
    ASSUME Types, NEW t \in Threads
    PROVE  /\ call[t] \in Calls /\ CallOK(call[t])
           /\ Head1(t) = "authenticate" <=> At(call[t]) = "authenticate"
           /\ Head1(t) = "check" <=> At(call[t]) = "check"
           /\ Head1(t) = "load" <=> At(call[t]) = "load"
           /\ Head1(t) = "recall" <=> At(call[t]) \in {"recall", "out_recall"}
           /\ Head1(t) = "drop" <=> At(call[t]) \in {"drop", "out_drop"}
           /\ Head1(t) = "unindex" <=> At(call[t]) \in {"unindex", "out_unindex"}
           /\ Head1(t) = "mark" <=> At(call[t]) = "mark"
           /\ Head1(t) = "index" <=> At(call[t]) = "index"
           /\ Head1(t) = "consume" <=> At(call[t]) \in {"consume_confirm", "consume_hash", "consume_move"}
           /\ Head1(t) = "confirm" <=> At(call[t]) = "confirm"
           /\ Head1(t) = "hash" <=> At(call[t]) = "hash"
           /\ Head1(t) = "redeem" <=> At(call[t]) = "redeem"
           /\ Head1(t) = "list" <=> At(call[t]) = "list"
           /\ Head1(t) = "sweep" <=> At(call[t]) = "sweep"
           /\ Head1(t) = "keys" <=> At(call[t]) = "keys"
           /\ Head1(t) = "free" <=> At(call[t]) = "free"
           /\ Head1(t) = "move" <=> At(call[t]) = "move"
           /\ Head1(t) = "create" <=> At(call[t]) = "create"
           /\ Head1(t) = "patch" <=> At(call[t]) = "patch"
           /\ Head1(t) = "remove" <=> At(call[t]) = "remove"
           /\ Head1(t) = "remove_role" <=> At(call[t]) = "remove_role"
           /\ Head1(t) = "" <=> At(call[t]) = "idle"
<1>1. call[t] \in Calls /\ CallOK(call[t])
  BY DEF Types, CallsOK
<1>2. PICK s : s = call[t].todo
  OBVIOUS
<1>3. s \in Todos
  BY <1>1, <1>2 DEF Calls
<1>4. Head1(t) = First(s) /\ At(call[t]) = Place(s)
  BY <1>2 DEF Head1, First, At
<1> QED
  BY <1>1, <1>3, <1>4, Places

LEMMA Proceeds ==
    ASSUME NEW t, NEW c, Proceed(t, c) PROVE Moves(t, Onward(c))
  BY DEF Proceed, Moves, Onward, Ends, Rest

LEMMA GoesOn ==
    ASSUME NEW t, GoOn(t) PROVE Moves(t, Onward(call[t]))
  BY Proceeds DEF GoOn

LEMMA Returns ==
    ASSUME NEW t, Return(t) PROVE Moves(t, Blank)
  BY DEF Return, Moves

(* The commands after which a handler knows more, or goes another way. *)
LoggedIn(c, u, d) == /\ At(d) = "mark" /\ d.user = u /\ d.jti = 0 /\ d.password = c.password
                     /\ d.link = c.link /\ d.listed = c.listed
LEMMA Authenticated ==
    ASSUME Types, NEW c, CallOK(c), At(c) = "authenticate", NEW u \in Users, IsRow(replica.users[u]),
           NEW d, d = Onward([c EXCEPT !.user = u, !.claims = Claims(u, replica)])
    PROVE  CallOK(d) /\ LoggedIn(c, u, d)
<1>1. c \in Calls /\ c.jti = 0
  BY DEF CallOK
<1>2. Claims(u, replica) \in Tokens /\ Born(u)
  BY RowFacts DEF Types, TablesOK
<1>3. PICK b : b = [c EXCEPT !.user = u, !.claims = Claims(u, replica)]
  OBVIOUS
<1>4. /\ b \in Calls /\ b.todo = c.todo /\ b.user = u /\ b.claims \in Tokens
      /\ b.jti = c.jti /\ b.link = c.link /\ b.password = c.password /\ b.listed = c.listed
  BY <1>1, <1>2, <1>3 DEF Calls
<1>5. At(b) = "authenticate"
  BY <1>4 DEF At
<1>6. /\ Onward(b) \in Calls /\ At(Onward(b)) = "mark" /\ Onward(b).user = b.user /\ Onward(b).jti = b.jti
      /\ Onward(b).claims = b.claims /\ Onward(b).link = b.link /\ Onward(b).listed = b.listed
      /\ Onward(b).password = b.password
  BY <1>4, <1>5, Route, OnwardIs DEF Lasts, Follows
<1>7. d = Onward(b)
  BY <1>3
<1>8. CallOK(d)
  BY <1>1, <1>2, <1>4, <1>6, <1>7 DEF CallOK, Refreshing
<1> QED
  BY <1>1, <1>4, <1>6, <1>7, <1>8 DEF LoggedIn

LEMMA Loaded ==
    ASSUME Types, NEW c, CallOK(c), At(c) = "load", NEW d,
           d = Onward(IF IsRow(replica.users[c.user])
                      THEN [c EXCEPT !.claims = Claims(c.user, replica)]
                      ELSE [c EXCEPT !.todo = <<"load">> \o Drop])
    PROVE  /\ CallOK(d) /\ d.user = c.user /\ d.jti = c.jti /\ d.link = c.link /\ d.listed = c.listed
           /\ At(d) = IF IsRow(replica.users[c.user]) THEN "recall" ELSE "out_recall"
<1>1. c \in Calls /\ c.user \in Users /\ Rotates(c)
  BY DEF CallOK, Refreshing
<1>2. CASE IsRow(replica.users[c.user])
  <2>1. Claims(c.user, replica) \in Tokens /\ Born(c.user)
    BY <1>1, <1>2, RowFacts DEF Types, TablesOK
  <2>2. PICK b : b = [c EXCEPT !.claims = Claims(c.user, replica)]
    OBVIOUS
  <2>3. /\ b \in Calls /\ b.todo = c.todo /\ b.user = c.user /\ b.claims \in Tokens
        /\ b.jti = c.jti /\ b.link = c.link /\ b.listed = c.listed
    BY <1>1, <2>1, <2>2 DEF Calls
  <2>4. At(b) = "load"
    BY <2>3 DEF At
  <2>5. /\ Onward(b) \in Calls /\ At(Onward(b)) = "recall" /\ Onward(b).user = b.user /\ Onward(b).jti = b.jti
        /\ Onward(b).claims = b.claims /\ Onward(b).link = b.link /\ Onward(b).listed = b.listed
    BY <2>3, <2>4, Route, OnwardIs DEF Lasts, Follows
  <2>6. d = Onward(b)
    BY <1>2, <2>2
  <2>7. Rotates(d)
    BY <1>1, <2>3, <2>5, <2>6 DEF Rotates
  <2>8. CallOK(d)
    BY <1>1, <2>1, <2>3, <2>5, <2>6, <2>7 DEF CallOK, Refreshing
  <2> QED
    BY <1>2, <2>3, <2>5, <2>6, <2>8
<1>3. CASE ~IsRow(replica.users[c.user])
  <2>1. PICK b : b = [c EXCEPT !.todo = <<"load">> \o Drop]
    OBVIOUS
  <2>2. PICK s : s = <<"load">> \o Drop
    OBVIOUS
  <2>3. b.todo = s
    BY <1>1, <2>1, <2>2 DEF Calls
  <2>4. ~Ends(s) /\ Rest(s) = OutRecall
    BY <2>2, RoutesAre DEF Ends, Rest
  <2>5. Onward(b) = [b EXCEPT !.todo = OutRecall]
    BY <2>3, <2>4 DEF Onward
  <2>6. OutRecall \in Todos
    BY DEF Todos
  <2>7. d = Onward(b)
    BY <1>3, <2>1
  <2>8. d = [c EXCEPT !.todo = OutRecall]
    BY <1>1, <2>1, <2>5, <2>7 DEF Calls
  <2>9. /\ d \in Calls /\ d.user = c.user /\ d.jti = c.jti /\ d.link = c.link /\ d.listed = c.listed
        /\ d.todo = OutRecall
    BY <1>1, <2>6, <2>8 DEF Calls
  <2>10. At(d) = "out_recall"
    BY <2>9, Table DEF At
  <2>11. Rotates(d)
    BY <1>1, <2>9 DEF Rotates
  <2>12. CallOK(d)
    BY <1>1, <2>9, <2>10, <2>11 DEF CallOK, Refreshing
  <2> QED
    BY <1>3, <2>9, <2>10, <2>12
<1> QED
  BY <1>2, <1>3

(* "recall" and "list" note what they have read. *)
LEMMA Noted ==
    ASSUME NEW c, CallOK(c), At(c) \in {"recall", "out_recall", "list"}, NEW n \in SUBSET Nat,
           NEW d, d = Onward([c EXCEPT !.listed = n])
    PROVE  /\ CallOK(d) /\ d.user = c.user /\ d.jti = c.jti /\ d.link = c.link /\ d.listed = n
           /\ d.password = c.password
           /\ Follows(At(c), At(d)) /\ At(d) \in {"drop", "out_drop", "sweep"}
<1>1. PICK b : b = [c EXCEPT !.listed = n]
  OBVIOUS
<1>2. c \in Calls
  BY DEF CallOK
<1>3. /\ b \in Calls /\ b.todo = c.todo /\ b.user = c.user /\ b.claims = c.claims /\ b.link = c.link
      /\ b.jti = c.jti /\ b.listed = n /\ b.password = c.password
  BY <1>1, <1>2 DEF Calls
<1>4. At(b) = At(c)
  BY <1>3 DEF At
<1>5. Rotates(c) => Rotates(b)
  BY <1>3 DEF Rotates
<1>6. CallOK(b)
  BY <1>3, <1>4, <1>5 DEF CallOK, Refreshing
<1>7. d = Onward(b) /\ CallOK(Onward(b))
  BY <1>1, <1>4, <1>6, OnwardOK
<1>8. /\ Follows(At(b), At(d)) /\ d.user = b.user /\ d.jti = b.jti /\ d.link = b.link
      /\ d.listed = b.listed /\ d.password = b.password
  BY <1>3, <1>4, <1>7, Route DEF Lasts
<1>9. At(d) \in {"drop", "out_drop", "sweep"}
  BY <1>4, <1>8 DEF Follows
<1> QED
  BY <1>3, <1>4, <1>7, <1>8, <1>9

-----------------------------------------------------------------------------
(* The parts of the state that a step leaves alone, or only adds to. *)
Remembered == \A u \in Users : Born(u) => Born(u)'

LEMMA SessionIs ==
    ASSUME NEW s \in Seq(Sessions), NEW j \in 1..Len(s)
    PROVE  /\ s[j] \in Sessions /\ s[j].user \in Users /\ s[j].from \in Nat
           /\ s[j].password \in Passwords \cup {NoPassword}
<1>1. s[j] \in Sessions
  OBVIOUS
<1> QED
  BY <1>1 DEF Sessions

LEMMA LinkIs ==
    ASSUME NEW s \in Seq(Links), NEW l \in 1..Len(s)
    PROVE  /\ s[l] \in Links /\ s[l].kind \in LinkKinds /\ s[l].user \in Users
           /\ s[l].email \in Emails /\ s[l].exp \in Nat /\ s[l].to \in Emails
           /\ s[l].effects \in Nat
<1>1. s[l] \in Links
  OBVIOUS
<1> QED
  BY <1>1 DEF Links

LEMMA SessionsStay ==
    ASSUME Types, UNCHANGED redisVars, Remembered PROVE SessionsOK'
<1>1. \A j \in 1..Len(sessions) : sessions[j].user \in Users
  BY SessionIs DEF Types, SessionsOK
<1> QED
  BY <1>1 DEF SessionsOK, Types, redisVars, Remembered

LEMMA LinksStay ==
    ASSUME Types, UNCHANGED <<links>>, mails' \subseteq Mails, used' \subseteq used, Remembered
    PROVE  LinksOK'
<1>1. \A l \in 1..Len(links) : links[l].user \in Users
  BY LinkIs DEF Types, LinksOK
<1> QED
  BY <1>1 DEF LinksOK, Types, Remembered

LEMMA RestStays ==
    ASSUME Types, UNCHANGED <<setup>>, now' \in Nat, calls' \in Nat, faults' \in Nat,
           access' \subseteq Tokens, keys' \subseteq keys,
           \A k \in keys' : Exists(k.user) => Exists(k.user)'
    PROVE  RestOK'
<1>1. \A k \in keys : k.user \in Users /\ Exists(k.user)
  BY DEF Types, RestOK
<1>2. \A k \in keys' : k.user \in Users /\ Exists(k.user)'
  BY <1>1
<1>3. setup' \in Setups
  BY DEF Types, RestOK
<1> QED
  BY <1>2, <1>3 DEF RestOK

LEMMA GrowsStill ==
    ASSUME Types, UNCHANGED <<sessions, links>>, Remembered PROVE Grows
  BY DEF Types, SessionsOK, LinksOK, Grows, Remembered

StateOK == TablesOK /\ SessionsOK /\ LinksOK /\ RestOK

LEMMA OnlyReads ==
    ASSUME Types, UNCHANGED <<setup, tables, redisVars, mailVars, keys, used>>,
           now' \in Nat, calls' \in Nat, faults' \in Nat, access' \subseteq Tokens
    PROVE  StateOK' /\ Grows
<1>1. TablesOK' /\ Remembered
  BY TablesStay DEF tables, Remembered
<1>2. SessionsOK'
  BY <1>1, SessionsStay
<1>3. LinksOK'
  BY <1>1, LinksStay DEF mailVars, Types, LinksOK
<1>4. RestOK'
  BY RestStays DEF tables, Exists
<1>5. Grows
  BY <1>1, GrowsStill DEF redisVars, mailVars
<1> QED
  BY <1>1, <1>2, <1>3, <1>4, <1>5 DEF StateOK

LEMMA OnlySessions ==
    ASSUME Types, UNCHANGED <<setup, tables, mailVars, keys, used, now, calls, faults>>,
           access' \subseteq Tokens, Len(sessions) <= Len(sessions'),
           \A j \in 1..Len(sessions) : sessions'[j] = sessions[j],
           sessions' \in Seq(Sessions),
           \A j \in 1..Len(sessions') : sessions'[j].from < j /\ Born(sessions'[j].user),
           live' \subseteq 1..Len(sessions'), index' \in [Users -> SUBSET (1..Len(sessions'))]
    PROVE  StateOK' /\ Grows
<1>1. TablesOK' /\ Remembered
  BY TablesStay DEF tables, Remembered
<1>2. SessionsOK'
  <2>1. \A j \in 1..Len(sessions') : sessions'[j].user \in Users
    BY SessionIs
  <2> QED
    BY <1>1, <2>1 DEF SessionsOK, Remembered
<1>3. LinksOK'
  BY <1>1, LinksStay DEF mailVars, Types, LinksOK
<1>4. RestOK'
  BY RestStays DEF tables, Exists, Types, RestOK
<1>5. Grows
  BY <1>1 DEF mailVars, Grows, Types, LinksOK, Remembered
<1> QED
  BY <1>1, <1>2, <1>3, <1>4, <1>5 DEF StateOK

LEMMA SameSessions ==
    ASSUME Types, UNCHANGED <<setup, tables, sessions, mailVars, keys, used, now, calls, faults>>,
           access' \subseteq Tokens, live' \subseteq live, index' \in [Users -> SUBSET (1..Len(sessions))]
    PROVE  StateOK' /\ Grows
<1>1. Len(sessions) \in Nat
  BY DEF Types, SessionsOK
<1> QED
  BY <1>1, OnlySessions DEF Types, SessionsOK

Steps(t) == \E d : Moves(t, d) /\ CallOK(d)'

LEMMA Assembled ==
    ASSUME Types, StateOK', Grows, NEW t \in Threads, Steps(t) PROVE Types'
<1>1. CallsOK'
  BY CallsMove DEF Steps
<1> QED
  BY <1>1 DEF StateOK, Types

LEMMA Proceeding ==
    ASSUME Types, Grows, NEW t \in Threads, At(call[t]) \notin {"idle", "authenticate", "load", "mark"},
           GoOn(t) \/ Return(t)
    PROVE  Steps(t)
<1>1. CASE Return(t)
  <2>1. CallOK(Blank)'
    BY BlankOK, CallKept
  <2> QED
    BY <1>1, <2>1, Returns DEF Steps
<1>2. CASE GoOn(t)
  <2>1. PICK d : d = Onward(call[t])
    OBVIOUS
  <2>2. CallOK(d)
    BY <2>1, AtHead, OnwardOK
  <2>3. CallOK(d)'
    BY <2>2, CallKept
  <2> QED
    BY <1>2, <2>1, <2>3, GoesOn DEF Steps
<1> QED
  BY <1>1, <1>2

-----------------------------------------------------------------------------
(* The commands of sessions keep the types. *)
LEMMA ReadingStep ==
    ASSUME Types, UNCHANGED <<setup, tables, redisVars, mailVars, keys, used, access, now, calls, faults>>
    PROVE  StateOK' /\ Grows
  BY OnlyReads DEF Types, RestOK

LEMMA AuthenticateOK ==
    ASSUME Types, NEW t \in Threads, Authenticate(t), UNCHANGED <<setup, now, calls, faults>>
    PROVE  Types'
<1>1. StateOK' /\ Grows
  BY ReadingStep DEF Authenticate
<1>2. PICK c : c = call[t]
  OBVIOUS
<1>3. CallOK(c) /\ At(c) = "authenticate"
  BY <1>2, AtHead DEF Authenticate
<1>4. CASE Return(t)
  <2>1. CallOK(Blank)'
    BY <1>1, BlankOK, CallKept
  <2> QED
    BY <1>1, <1>4, <2>1, Returns, Assembled DEF Steps
<1>5. CASE ~Return(t)
  <2>1. PICK u : u = ByEmail(replica.users, c.email)
    OBVIOUS
  <2>2. /\ Taken(replica.users, c.email)
        /\ Proceed(t, [c EXCEPT !.user = u, !.claims = Claims(u, replica)])
    BY <1>2, <1>5, <2>1 DEF Authenticate
  <2>3. u \in Users /\ IsRow(replica.users[u])
    BY <2>1, <2>2, ByEmailIs
  <2>4. PICK d : d = Onward([c EXCEPT !.user = u, !.claims = Claims(u, replica)])
    OBVIOUS
  <2>5. CallOK(d)
    BY <1>3, <2>3, <2>4, Authenticated
  <2>6. CallOK(d)'
    BY <1>1, <2>5, CallKept
  <2>7. Moves(t, d)
    BY <2>2, <2>4, Proceeds
  <2> QED
    BY <1>1, <2>6, <2>7, Assembled DEF Steps
<1> QED
  BY <1>4, <1>5

LEMMA CheckOK ==
    ASSUME Types, NEW t \in Threads, Check(t), UNCHANGED <<setup, now, calls, faults>>
    PROVE  Types'
<1>1. StateOK' /\ Grows
  BY ReadingStep DEF Check
<1>2. At(call[t]) = "check" /\ (GoOn(t) \/ Return(t))
  BY AtHead DEF Check
<1> QED
  BY <1>1, <1>2, Proceeding, Assembled

LEMMA LoadOK ==
    ASSUME Types, NEW t \in Threads, Load(t), UNCHANGED <<setup, now, calls, faults>>
    PROVE  Types'
<1>1. StateOK' /\ Grows
  BY ReadingStep DEF Load
<1>2. PICK c : c = call[t]
  OBVIOUS
<1>3. CallOK(c) /\ At(c) = "load"
  BY <1>2, AtHead DEF Load
<1>4. PICK d : d = Onward(IF IsRow(replica.users[c.user])
                          THEN [c EXCEPT !.claims = Claims(c.user, replica)]
                          ELSE [c EXCEPT !.todo = <<"load">> \o Drop])
  OBVIOUS
<1>5. Moves(t, d)
  BY <1>2, <1>4, Proceeds DEF Load
<1>6. CallOK(d)
  BY <1>3, <1>4, Loaded
<1>7. CallOK(d)'
  BY <1>1, <1>6, CallKept
<1> QED
  BY <1>1, <1>5, <1>7, Assembled DEF Steps

LEMMA RecallOK ==
    ASSUME Types, NEW t \in Threads, Recall(t), UNCHANGED <<setup, now, calls, faults>>
    PROVE  Types'
<1>1. StateOK' /\ Grows
  BY ReadingStep DEF Recall
<1>2. PICK c : c = call[t]
  OBVIOUS
<1>3. CallOK(c) /\ At(c) \in {"recall", "out_recall"} /\ c \in Calls
  BY <1>2, AtHead DEF Recall
<1>4. PICK n : n = {c.jti} \cap live
  OBVIOUS
<1>5. n \in SUBSET Nat
  BY <1>3, <1>4 DEF Calls
<1>6. PICK d : d = Onward([c EXCEPT !.listed = n])
  OBVIOUS
<1>7. Moves(t, d)
  BY <1>2, <1>4, <1>6, Proceeds DEF Recall
<1>8. CallOK(d)
  BY <1>3, <1>5, <1>6, Noted
<1>9. CallOK(d)'
  BY <1>1, <1>8, CallKept
<1> QED
  BY <1>1, <1>7, <1>9, Assembled DEF Steps

LEMMA ListOK ==
    ASSUME Types, NEW t \in Threads, List(t), UNCHANGED <<setup, now, calls, faults>>
    PROVE  Types'
<1>1. StateOK' /\ Grows
  BY ReadingStep DEF List
<1>2. PICK c : c = call[t]
  OBVIOUS
<1>3. CallOK(c) /\ At(c) = "list" /\ c.user \in Users
  BY <1>2, AtHead DEF List, CallOK
<1>4. PICK n : n = index[c.user]
  OBVIOUS
<1>5. n \in SUBSET Nat
  BY <1>3, <1>4 DEF Types, SessionsOK
<1>6. PICK d : d = Onward([c EXCEPT !.listed = n])
  OBVIOUS
<1>7. Moves(t, d)
  BY <1>2, <1>4, <1>6, Proceeds DEF List
<1>8. CallOK(d)
  BY <1>3, <1>5, <1>6, Noted
<1>9. CallOK(d)'
  BY <1>1, <1>8, CallKept
<1> QED
  BY <1>1, <1>7, <1>9, Assembled DEF Steps

LEMMA DropJtiOK ==
    ASSUME Types, NEW t \in Threads, DropJti(t), UNCHANGED <<setup, now, calls, faults>>
    PROVE  Types'
<1>1. StateOK' /\ Grows
  BY SameSessions DEF DropJti, Types, SessionsOK, RestOK
<1>2. At(call[t]) \in {"drop", "out_drop"} /\ GoOn(t)
  BY AtHead DEF DropJti
<1> QED
  BY <1>1, <1>2, Proceeding, Assembled

LEMMA UnindexOK ==
    ASSUME Types, NEW t \in Threads, Unindex(t), UNCHANGED <<setup, now, calls, faults>>
    PROVE  Types'
<1>1. index' \in [Users -> SUBSET (1..Len(sessions))]
  BY DEF Unindex, Types, SessionsOK
<1>2. StateOK' /\ Grows
  BY <1>1, SameSessions DEF Unindex, Types, RestOK
<1>3. At(call[t]) \in {"unindex", "out_unindex"} /\ GoOn(t)
  BY AtHead DEF Unindex
<1> QED
  BY <1>2, <1>3, Proceeding, Assembled

LEMMA IndexOK ==
    ASSUME Types, NEW t \in Threads, Index(t), UNCHANGED <<setup, now, calls, faults>>
    PROVE  Types'
<1>1. At(call[t]) = "index" /\ Return(t) /\ CallOK(call[t])
  BY AtHead DEF Index
<1>2. /\ call[t].claims \in Tokens /\ call[t].jti \in 1..Len(sessions)
  BY <1>1 DEF CallOK, Rotates
<1>3. index' \in [Users -> SUBSET (1..Len(sessions))] /\ access' \subseteq Tokens
  BY <1>2 DEF Index, Types, SessionsOK, RestOK
<1>4. StateOK' /\ Grows
  BY <1>3, SameSessions DEF Index
<1> QED
  BY <1>1, <1>4, Proceeding, Assembled

LEMMA SweepOK ==
    ASSUME Types, NEW t \in Threads, Sweep(t), UNCHANGED <<setup, now, calls, faults>>
    PROVE  Types'
<1>1. index' \in [Users -> SUBSET (1..Len(sessions))] /\ live' \subseteq live
  BY DEF Sweep, Types, SessionsOK
<1>2. StateOK' /\ Grows
  BY <1>1, SameSessions DEF Sweep, Types, RestOK
<1>3. At(call[t]) = "sweep" /\ GoOn(t)
  BY AtHead DEF Sweep
<1> QED
  BY <1>2, <1>3, Proceeding, Assembled

(* mint_session() appends a session whose number the handler then has. *)
LEMMA Minted ==
    ASSUME NEW s \in Seq(Sessions), NEW x \in Sessions, NEW n, n = Append(s, x)
    PROVE  /\ n \in Seq(Sessions) /\ Len(n) = Len(s) + 1 /\ Len(s) \in Nat
           /\ n[Len(s) + 1] = x /\ \A j \in 1..Len(s) : n[j] = s[j]
  OBVIOUS

LEMMA MarkIs ==
    ASSUME Types, NEW t \in Threads, Mark(t), NEW c, c = call[t], NEW j, j = Len(sessions) + 1
    PROVE  /\ CallOK(c) /\ At(c) = "mark" /\ c.user \in Users /\ Born(c.user)
           /\ j \in Nat /\ Len(sessions') = j /\ sessions' \in Seq(Sessions)
           /\ \A i \in 1..Len(sessions) : sessions'[i] = sessions[i]
           /\ sessions'[j].user = c.user /\ sessions'[j].from = c.jti
           /\ sessions'[j].password = IF c.jti = 0 THEN c.password ELSE sessions[c.jti].password
           /\ c.jti \in Nat /\ c.jti < j
<1>1. CallOK(c) /\ At(c) = "mark" /\ c \in Calls
  BY AtHead DEF Mark
<1>2. c.user \in Users /\ Born(c.user) /\ (c.jti = 0 \/ Rotates(c)) /\ c.jti \in Nat
  BY <1>1 DEF CallOK, Calls
<1>3. PICK p : p = IF c.jti = 0 THEN c.password ELSE sessions[c.jti].password
  OBVIOUS
<1>4. PICK x : x = [user |-> c.user, from |-> c.jti, password |-> p]
  OBVIOUS
<1>5. sessions' = Append(sessions, x)
  BY <1>3, <1>4 DEF Mark
<1>6. sessions \in Seq(Sessions) /\ Len(sessions) \in Nat
  BY DEF Types, SessionsOK
<1>7. p \in Passwords \cup {NoPassword}
  <2>1. CASE c.jti = 0
    BY <1>1, <1>3, <2>1 DEF Calls
  <2>2. CASE c.jti # 0
    BY <1>2, <1>3, <1>6, <2>2, SessionIs DEF Rotates
  <2> QED
    BY <2>1, <2>2
<1>8. x \in Sessions /\ x.user = c.user /\ x.from = c.jti /\ x.password = p
  BY <1>2, <1>4, <1>7 DEF Sessions
<1>9. /\ sessions' \in Seq(Sessions) /\ Len(sessions') = j /\ sessions'[j] = x /\ j \in Nat
      /\ \A i \in 1..Len(sessions) : sessions'[i] = sessions[i]
  BY <1>5, <1>6, <1>8, Minted
<1>10. c.jti < j
  BY <1>2, <1>6 DEF Rotates
<1> QED
  BY <1>1, <1>2, <1>3, <1>8, <1>9, <1>10

LEMMA Marked ==
    ASSUME NEW c \in Calls, At(c) = "mark", NEW j \in Nat, NEW d, d = Onward([c EXCEPT !.jti = j])
    PROVE  /\ d \in Calls /\ At(d) = "index" /\ d.user = c.user /\ d.jti = j /\ d.claims = c.claims
           /\ d.link = c.link /\ d.listed = c.listed /\ d.password = c.password
<1>1. PICK b : b = [c EXCEPT !.jti = j]
  OBVIOUS
<1>2. /\ b \in Calls /\ b.todo = c.todo /\ b.user = c.user /\ b.claims = c.claims /\ b.link = c.link
      /\ b.jti = j /\ b.listed = c.listed /\ b.password = c.password
  BY <1>1 DEF Calls
<1>3. At(b) = "mark"
  BY <1>2 DEF At
<1>4. d = Onward(b)
  BY <1>1
<1> QED
  BY <1>2, <1>3, <1>4, Route, OnwardIs DEF Lasts, Follows

LEMMA MarkOK ==
    ASSUME Types, NEW t \in Threads, Mark(t), UNCHANGED <<setup, now, calls, faults>>
    PROVE  Types'
<1>1. PICK c, j : c = call[t] /\ j = Len(sessions) + 1
  OBVIOUS
<1>2. /\ CallOK(c) /\ At(c) = "mark" /\ c.user \in Users /\ Born(c.user)
      /\ j \in Nat /\ Len(sessions') = j /\ sessions' \in Seq(Sessions)
      /\ \A i \in 1..Len(sessions) : sessions'[i] = sessions[i]
      /\ sessions'[j].user = c.user /\ sessions'[j].from = c.jti /\ c.jti \in Nat /\ c.jti < j
  BY <1>1, MarkIs
<1>3. live' \subseteq 1..j /\ index' \in [Users -> SUBSET (1..j)]
  BY <1>1, <1>2 DEF Mark, Types, SessionsOK
<1>4. \A i \in 1..Len(sessions') : sessions'[i].from < i /\ Born(sessions'[i].user)
  <2>1. ASSUME NEW i \in 1..j PROVE sessions'[i].from < i /\ Born(sessions'[i].user)
    <3>1. CASE i = j
      BY <1>2, <3>1
    <3>2. CASE i # j
      <4>1. i \in 1..Len(sessions)
        BY <1>1, <1>2, <3>2
      <4> QED
        BY <1>2, <4>1 DEF Types, SessionsOK
    <3> QED
      BY <3>1, <3>2
  <2> QED
    BY <1>2, <2>1
<1>5. StateOK' /\ Grows
  BY <1>1, <1>2, <1>3, <1>4, OnlySessions DEF Mark, Types, RestOK
<1>6. PICK d : d = Onward([c EXCEPT !.jti = j])
  OBVIOUS
<1>7. Moves(t, d)
  BY <1>1, <1>6, Proceeds DEF Mark
<1>8. c \in Calls /\ c.claims \in Tokens
  BY <1>2 DEF CallOK
<1>9. d \in Calls /\ At(d) = "index" /\ d.user = c.user /\ d.jti = j /\ d.claims = c.claims
  BY <1>2, <1>6, <1>8, Marked
<1>10. Rotates(d)'
  BY <1>2, <1>9 DEF Rotates
<1>11. Born(d.user)'
  BY <1>2, <1>5, <1>9 DEF Grows
<1>12. At(d)' = "index"
  BY <1>9 DEF At, Place
<1>13. CallOK(d)'
  BY <1>2, <1>8, <1>9, <1>10, <1>11, <1>12 DEF CallOK, Refreshing
<1> QED
  BY <1>5, <1>7, <1>13, Assembled DEF Steps

-----------------------------------------------------------------------------
(* The commands of the repositories keep the types. *)
LEMMA RevokeKeysOK ==
    ASSUME Types, NEW t \in Threads, RevokeKeys(t), UNCHANGED <<setup, now, calls, faults>>
    PROVE  Types'
<1>1. TablesOK' /\ Remembered
  BY TablesStay DEF RevokeKeys, tables, Remembered
<1>2. SessionsOK'
  BY <1>1, SessionsStay DEF RevokeKeys
<1>3. LinksOK'
  BY <1>1, LinksStay DEF RevokeKeys, mailVars, Types, LinksOK
<1>4. RestOK'
  BY RestStays DEF RevokeKeys, tables, Exists, Types, RestOK
<1>5. Grows
  BY <1>1, GrowsStill DEF RevokeKeys, redisVars, mailVars
<1>6. At(call[t]) = "keys" /\ Return(t)
  BY AtHead DEF RevokeKeys
<1> QED
  BY <1>1, <1>2, <1>3, <1>4, <1>5, <1>6, Proceeding, Assembled DEF StateOK

LEMMA ConsumeOK ==
    ASSUME Types, NEW t \in Threads, Consume(t), UNCHANGED <<setup, now, calls, faults>>
    PROVE  Types'
<1>1. TablesOK' /\ Remembered
  BY TablesStay DEF Consume, tables, Remembered
<1>2. SessionsOK'
  BY <1>1, SessionsStay DEF Consume
<1>3. RestOK'
  BY RestStays DEF Consume, tables, Exists, Types, RestOK
<1>4. Grows
  BY <1>1, GrowsStill DEF Consume, redisVars, mailVars
<1>5. At(call[t]) \in {"consume_confirm", "consume_hash", "consume_move"} /\ CallOK(call[t])
  BY AtHead DEF Consume
<1>6. PICK l : l = call[t].link
  OBVIOUS
<1>7. l \in 1..Len(links) /\ links[l].kind \in LinkKinds \ {"invite"}
  BY <1>5, <1>6, LinkIs DEF CallOK, Comes, Types, LinksOK
<1>8. now + Kept[links[l].kind] \in Nat
  BY <1>7, LifetimesAssumption DEF Types, RestOK
<1>9. used' \subseteq used \cup {[link |-> l, until |-> now + Kept[links[l].kind]]}
  BY <1>6 DEF Consume
<1>10. LinksOK'
  <2>1. \A r \in used' : r.link \in 1..Len(links) /\ r.until \in Nat
    BY <1>7, <1>8, <1>9 DEF Types, LinksOK
  <2>2. \A k \in 1..Len(links) : links[k].user \in Users
    BY LinkIs DEF Types, LinksOK
  <2> QED
    BY <1>1, <2>1, <2>2 DEF Consume, mailVars, LinksOK, Types, Remembered
<1>11. GoOn(t) \/ Return(t)
  BY DEF Consume
<1> QED
  BY <1>1, <1>2, <1>3, <1>4, <1>5, <1>10, <1>11, Proceeding, Assembled DEF StateOK

LEMMA LookFreeOK ==
    ASSUME Types, NEW t \in Threads, LookFree(t), UNCHANGED <<setup, now, calls, faults>>
    PROVE  Types'
<1>1. StateOK' /\ Grows
  BY ReadingStep DEF LookFree
<1>2. At(call[t]) = "free" /\ (GoOn(t) \/ Return(t))
  BY AtHead DEF LookFree
<1> QED
  BY <1>1, <1>2, Proceeding, Assembled

(* The row of a user with one column changed. *)
LEMMA RowOf ==
    ASSUME Types, NEW u \in Users, Exists(u)
    PROVE  /\ users[u] \in Rows /\ roles[users[u].role] # NoRole /\ users[u].role \in Roles
           /\ users[u].email \in Emails /\ users[u].confirmed \in BOOLEAN
           /\ users[u].password \in Passwords \cup {NoPassword}
           /\ \A v \in Users : v # u /\ Exists(v) => users[v].email # users[u].email
<1>1. Consistent(Primary) /\ Primary.users = users /\ Primary.roles = roles
  BY DEF Types, TablesOK, Primary
<1>2. users[u] \in Rows
  BY <1>1, RowFacts DEF Exists
<1>3. /\ roles[users[u].role] # NoRole
      /\ \A v \in Users : v # u /\ Exists(v) => users[v].email # users[u].email
  BY <1>1 DEF Consistent, Exists
<1> QED
  BY <1>2, <1>3 DEF Rows

LEMMA EffectIs ==
    ASSUME Types, NEW l \in {0} \cup 1..Len(links), Effect(l)
    PROVE  /\ links' \in Seq(Links) /\ Len(links') = Len(links)
           /\ \A k \in 1..Len(links) :
                 /\ links'[k].kind = links[k].kind /\ links'[k].user = links[k].user
                 /\ links'[k].email = links[k].email /\ links'[k].exp = links[k].exp
                 /\ links'[k].to = links[k].to
                 /\ links'[k].effects = IF k = l THEN links[k].effects + 1 ELSE links[k].effects
<1>1. links \in Seq(Links) /\ Len(links) \in Nat
  BY DEF Types, LinksOK
<1>2. CASE l = 0
  BY <1>1, <1>2 DEF Effect
<1>3. CASE l # 0
  <2>1. PICK x : x = [links[l] EXCEPT !.effects = @ + 1]
    OBVIOUS
  <2>2. links[l] \in Links
    BY <1>1, <1>3
  <2>3. /\ x \in Links /\ x.kind = links[l].kind /\ x.user = links[l].user /\ x.email = links[l].email
        /\ x.exp = links[l].exp /\ x.to = links[l].to /\ x.effects = links[l].effects + 1
    BY <2>1, <2>2 DEF Links
  <2>4. links' = [links EXCEPT ![l] = x]
    BY <1>3, <2>1 DEF Effect
  <2>5. links' \in Seq(Links) /\ Len(links') = Len(links) /\ \A k \in 1..Len(links) : links'[k] = IF k = l THEN x ELSE links[k]
    BY <1>1, <1>3, <2>3, <2>4
  <2> QED
    BY <2>3, <2>5
<1> QED
  BY <1>2, <1>3

(* The commands of Write(). *)
Writing == {"confirm", "hash", "move", "redeem"}
LEMMA WriteOK ==
    ASSUME Types, NEW t \in Threads, NEW step, NEW possible, NEW row, Write(t, step, possible, row),
           UNCHANGED <<setup, now, calls, faults>>, At(call[t]) \in Writing, possible \in BOOLEAN,
           possible => /\ Exists(call[t].user) /\ row \in Rows /\ row.role = users[call[t].user].role
                       /\ \A v \in Users : v # call[t].user /\ Exists(v) => users[v].email # row.email
    PROVE  Types'
<1>1. PICK c : c = call[t]
  OBVIOUS
<1>2. CallOK(c) /\ At(c) \in Writing /\ c \in Calls
  BY <1>1, AtHead
<1>3. c.user \in Users /\ c.link \in {0} \cup 1..Len(links)
  BY <1>2 DEF CallOK, Writing, Comes, Calls
<1>4. GoOn(t) \/ Return(t)
  BY DEF Write
<1>5. TablesOK' /\ Remembered /\ \A v \in Users : Exists(v) => Exists(v)'
  <2>1. CASE possible
    <3>1. Update(c.user, row)
      BY <1>1, <2>1 DEF Write
    <3>2. roles[row.role] # NoRole /\ row \in Rows
      BY <1>1, <1>3, <2>1, RowOf
    <3>3. \A v \in Users : v # c.user /\ Exists(v) => users[v].email # row.email
      BY <1>1, <2>1
    <3> QED
      BY <1>3, <3>1, <3>2, <3>3, PutRow DEF Remembered
  <2>2. CASE ~possible
    BY <2>2, TablesStay DEF Write, tables, Remembered, Exists
  <2> QED
    BY <2>1, <2>2
<1>6. SessionsOK'
  BY <1>5, SessionsStay DEF Write
<1>7. /\ links' \in Seq(Links) /\ Len(links') = Len(links)
      /\ \A k \in 1..Len(links) : /\ links'[k].kind = links[k].kind /\ links'[k].user = links[k].user
                                  /\ links'[k].email = links[k].email
  <2>1. CASE possible
    BY <1>1, <1>3, <2>1, EffectIs DEF Write
  <2>2. CASE ~possible
    BY <2>2 DEF Write, Types, LinksOK
  <2> QED
    BY <2>1, <2>2
<1>8. Grows
  <2>1. Len(sessions) \in Nat /\ Len(links) \in Nat
    BY DEF Types, SessionsOK, LinksOK
  <2> QED
    BY <1>5, <1>7, <2>1 DEF Write, redisVars, Grows, Remembered
<1>9. LinksOK'
  <2>1. \A k \in 1..Len(links) : links[k].user \in Users
    BY LinkIs DEF Types, LinksOK
  <2> QED
    BY <1>5, <1>7, <2>1 DEF Write, LinksOK, Types, Remembered
<1>10. RestOK'
  <2>1. \A k \in keys : k.user \in Users
    BY DEF Types, RestOK
  <2> QED
    BY <1>5, <2>1, RestStays DEF Write, Types, RestOK
<1> QED
  BY <1>1, <1>2, <1>4, <1>5, <1>6, <1>8, <1>9, <1>10, Proceeding, Assembled DEF StateOK, Writing

LEMMA MarkConfirmedOK ==
    ASSUME Types, NEW t \in Threads, MarkConfirmed(t), UNCHANGED <<setup, now, calls, faults>>
    PROVE  Types'
<1>1. PICK c, row : c = call[t] /\ row = [users[c.user] EXCEPT !.confirmed = TRUE]
  OBVIOUS
<1>2. At(c) = "confirm" /\ CallOK(c) /\ Write(t, "confirm", Exists(c.user), row)
  BY <1>1, AtHead DEF MarkConfirmed, Write
<1>3. c.user \in Users
  BY <1>2 DEF CallOK
<1>4. Exists(c.user) => /\ row \in Rows /\ row.role = users[c.user].role
                        /\ \A v \in Users : v # c.user /\ Exists(v) => users[v].email # row.email
  <2>1. Exists(c.user) => users[c.user] \in Rows
    BY <1>3, RowOf
  <2>2. Exists(c.user) => row \in Rows /\ row.role = users[c.user].role /\ row.email = users[c.user].email
    BY <1>1, <2>1 DEF Rows
  <2> QED
    BY <1>3, <2>2, RowOf
<1>5. Exists(c.user) \in BOOLEAN
  BY DEF Exists, IsRow
<1> QED
  BY <1>1, <1>2, <1>4, <1>5, WriteOK DEF Writing

LEMMA UpdatePasswordHashOK ==
    ASSUME Types, NEW t \in Threads, UpdatePasswordHash(t), UNCHANGED <<setup, now, calls, faults>>
    PROVE  Types'
<1>1. PICK c, row : c = call[t] /\ row = [users[c.user] EXCEPT !.password = c.password]
  OBVIOUS
<1>2. At(c) = "hash" /\ CallOK(c) /\ Write(t, "hash", Exists(c.user), row)
  BY <1>1, AtHead DEF UpdatePasswordHash, Write
<1>3. c.user \in Users /\ c.password \in Passwords \cup {NoPassword}
  BY <1>2 DEF CallOK, Calls
<1>4. Exists(c.user) => /\ row \in Rows /\ row.role = users[c.user].role
                        /\ \A v \in Users : v # c.user /\ Exists(v) => users[v].email # row.email
  <2>1. Exists(c.user) => users[c.user] \in Rows
    BY <1>3, RowOf
  <2>2. Exists(c.user) => row \in Rows /\ row.role = users[c.user].role /\ row.email = users[c.user].email
    BY <1>1, <1>3, <2>1 DEF Rows
  <2> QED
    BY <1>3, <2>2, RowOf
<1>5. Exists(c.user) \in BOOLEAN
  BY DEF Exists, IsRow
<1> QED
  BY <1>1, <1>2, <1>4, <1>5, WriteOK DEF Writing

LEMMA RedeemInviteOK ==
    ASSUME Types, NEW t \in Threads, RedeemInvite(t), UNCHANGED <<setup, now, calls, faults>>
    PROVE  Types'
<1>1. PICK c, row, b : /\ c = call[t]
                       /\ row = [users[c.user] EXCEPT !.confirmed = TRUE, !.password = c.password]
                       /\ b = (Exists(c.user) /\ ~users[c.user].confirmed /\ users[c.user].password = NoPassword)
  OBVIOUS
<1>2. At(c) = "redeem" /\ CallOK(c) /\ Write(t, "redeem", b, row)
  BY <1>1, AtHead DEF RedeemInvite, Write
<1>3. c.user \in Users /\ c.password \in Passwords \cup {NoPassword}
  BY <1>2 DEF CallOK, Calls
<1>4. Exists(c.user) => /\ row \in Rows /\ row.role = users[c.user].role
                        /\ \A v \in Users : v # c.user /\ Exists(v) => users[v].email # row.email
  <2>1. Exists(c.user) => users[c.user] \in Rows
    BY <1>3, RowOf
  <2>2. Exists(c.user) => row \in Rows /\ row.role = users[c.user].role /\ row.email = users[c.user].email
    BY <1>1, <1>3, <2>1 DEF Rows
  <2> QED
    BY <1>3, <2>2, RowOf
<1>5. b \in BOOLEAN /\ (b => Exists(c.user))
  BY <1>1 DEF Exists, IsRow
<1> QED
  BY <1>1, <1>2, <1>4, <1>5, WriteOK DEF Writing

LEMMA NotTaken ==
    ASSUME Types, NEW u \in Users, NEW e, NEW n, n = [users EXCEPT ![u] = NoUser], ~Taken(n, e)
    PROVE  \A v \in Users : v # u /\ Exists(v) => users[v].email # e
<1>1. \A v \in Users : v # u => n[v] = users[v]
  BY DEF Types, TablesOK, Consistent, Primary
<1> QED
  BY <1>1 DEF Taken, Exists

LEMMA ChangeEmailOK ==
    ASSUME Types, NEW t \in Threads, ChangeEmail(t), UNCHANGED <<setup, now, calls, faults>>
    PROVE  Types'
<1>1. PICK c, row, n : /\ c = call[t] /\ n = [users EXCEPT ![c.user] = NoUser]
                       /\ row = [users[c.user] EXCEPT !.email = c.email]
  OBVIOUS
<1>2. At(c) = "move" /\ CallOK(c) /\ Write(t, "move", Exists(c.user) /\ ~Taken(n, c.email), row)
  BY <1>1, AtHead DEF ChangeEmail, Write
<1>3. c.user \in Users /\ c.email \in Emails
  BY <1>2, LinkIs DEF CallOK, Comes, Types, LinksOK
<1>4. Exists(c.user) /\ ~Taken(n, c.email) =>
          /\ row \in Rows /\ row.role = users[c.user].role
          /\ \A v \in Users : v # c.user /\ Exists(v) => users[v].email # row.email
  <2>1. Exists(c.user) => users[c.user] \in Rows
    BY <1>3, RowOf
  <2>2. Exists(c.user) => row \in Rows /\ row.role = users[c.user].role /\ row.email = c.email
    BY <1>1, <1>3, <2>1 DEF Rows
  <2> QED
    BY <1>1, <1>3, <2>2, NotTaken
<1>5. (Exists(c.user) /\ ~Taken(n, c.email)) \in BOOLEAN
  BY DEF Exists, IsRow, Taken
<1> QED
  BY <1>1, <1>2, <1>4, <1>5, WriteOK DEF Writing

LEMMA CreateOK ==
    ASSUME Types, NEW t \in Threads, Create(t), UNCHANGED <<setup, now, calls, faults>>
    PROVE  Types'
<1>1. PICK c : c = call[t]
  OBVIOUS
<1>2. At(c) = "create" /\ CallOK(c) /\ Return(t) /\ c \in Calls
  BY <1>1, AtHead DEF Create
<1>3. c.user \in Users /\ c.email \in Emails /\ c.role \in Roles
  BY <1>2 DEF CallOK
<1>4. PICK row : row = [email |-> c.email, password |-> c.password, role |-> c.role,
                        confirmed |-> c.confirmed]
  OBVIOUS
<1>5. row \in Rows /\ row.role = c.role /\ row.email = c.email
  BY <1>2, <1>3, <1>4 DEF Rows, Calls
<1>6. /\ TablesOK' /\ Remembered /\ \A v \in Users : Exists(v) => Exists(v)'
      /\ mails' \subseteq Mails
  <2>1. CASE users[c.user] = NoUser /\ ~Taken(users, c.email) /\ roles[c.role] # NoRole
    <3>1. /\ Update(c.user, row)
          /\ mails' = IF c.mail = "" THEN mails
                      ELSE mails \cup {[kind |-> c.mail, user |-> c.user, email |-> c.email]}
      BY <1>1, <1>4, <2>1 DEF Create
    <3>2. \A v \in Users : v # c.user /\ Exists(v) => users[v].email # row.email
      BY <1>5, <2>1 DEF Taken, Exists
    <3>3. roles[row.role] # NoRole
      BY <1>5, <2>1
    <3>4. TablesOK' /\ Remembered /\ \A v \in Users : Exists(v) => Exists(v)'
      BY <1>3, <1>5, <3>1, <3>2, <3>3, PutRow DEF Remembered
    <3>5. c.mail \in {"", "confirm", "invite"}
      BY <1>2 DEF Calls
    <3>6. c.mail # "" => [kind |-> c.mail, user |-> c.user, email |-> c.email] \in Mails
      BY <1>3, <3>5 DEF Mails, LinkKinds
    <3>7. mails' \subseteq Mails
      BY <3>1, <3>6 DEF Types, LinksOK
    <3> QED
      BY <3>4, <3>7
  <2>2. CASE ~(users[c.user] = NoUser /\ ~Taken(users, c.email) /\ roles[c.role] # NoRole)
    <3>1. UNCHANGED <<tables, mails>>
      BY <1>1, <2>2 DEF Create
    <3> QED
      BY <3>1, TablesStay DEF tables, Remembered, Exists, Types, LinksOK
  <2> QED
    BY <2>1, <2>2
<1>7. SessionsOK'
  BY <1>6, SessionsStay DEF Create
<1>8. LinksOK'
  BY <1>6, LinksStay DEF Create
<1>9. RestOK'
  <2>1. \A k \in keys : k.user \in Users
    BY DEF Types, RestOK
  <2> QED
    BY <1>6, <2>1, RestStays DEF Create, Types, RestOK
<1>10. Grows
  BY <1>6, GrowsStill DEF Create, redisVars
<1> QED
  BY <1>1, <1>2, <1>6, <1>7, <1>8, <1>9, <1>10, Proceeding, Assembled DEF StateOK

LEMMA PatchOK ==
    ASSUME Types, NEW t \in Threads, Patch(t), UNCHANGED <<setup, now, calls, faults>>
    PROVE  Types'
<1>1. PICK c, u, n : c = call[t] /\ u = c.user /\ n = [users EXCEPT ![u] = NoUser]
  OBVIOUS
<1>2. At(c) = "patch" /\ CallOK(c) /\ Return(t) /\ c \in Calls
  BY <1>1, AtHead DEF Patch
<1>3. u \in Users
  BY <1>1, <1>2 DEF CallOK
<1>4. PICK row : row = [users[u] EXCEPT !.email = IF c.email = "" THEN @ ELSE c.email,
                                        !.role = IF c.role = NoRole THEN @ ELSE c.role]
  OBVIOUS
<1>5. TablesOK' /\ Remembered /\ \A v \in Users : Exists(v) => Exists(v)'
  <2>1. CASE Exists(u) /\ (c.role # NoRole => roles[c.role] # NoRole) /\ ~Taken(n, c.email)
    <3>1. Update(u, row)
      BY <1>1, <1>4, <2>1 DEF Patch
    <3>2. users[u] \in Rows
      BY <1>3, <2>1, RowOf
    <3>3. c.email \in Emails \cup {""} /\ c.role \in Roles \cup {NoRole}
      BY <1>2 DEF Calls
    <3>4. /\ row \in Rows
          /\ row.email = IF c.email = "" THEN users[u].email ELSE c.email
          /\ row.role = IF c.role = NoRole THEN users[u].role ELSE c.role
      BY <1>4, <3>2, <3>3 DEF Rows
    <3>5. roles[row.role] # NoRole
      BY <1>3, <2>1, <3>4, RowOf
    <3>6. \A v \in Users : v # u /\ Exists(v) => users[v].email # row.email
      <4>1. \A v \in Users : v # u /\ Exists(v) => users[v].email # users[u].email
        BY <1>3, <2>1, RowOf
      <4>2. \A v \in Users : v # u /\ Exists(v) => users[v].email # c.email
        BY <1>1, <1>3, <2>1, NotTaken
      <4> QED
        BY <3>4, <4>1, <4>2
    <3> QED
      BY <1>3, <3>1, <3>4, <3>5, <3>6, PutRow DEF Remembered
  <2>2. CASE ~(Exists(u) /\ (c.role # NoRole => roles[c.role] # NoRole) /\ ~Taken(n, c.email))
    <3>1. UNCHANGED tables
      BY <1>1, <2>2 DEF Patch
    <3> QED
      BY <3>1, TablesStay DEF tables, Remembered, Exists
  <2> QED
    BY <2>1, <2>2
<1>6. SessionsOK'
  BY <1>5, SessionsStay DEF Patch
<1>7. LinksOK'
  BY <1>5, LinksStay DEF Patch, mailVars, Types, LinksOK
<1>8. RestOK'
  <2>1. \A k \in keys : k.user \in Users
    BY DEF Types, RestOK
  <2> QED
    BY <1>5, <2>1, RestStays DEF Patch, Types, RestOK
<1>9. Grows
  BY <1>5, GrowsStill DEF Patch, redisVars, mailVars
<1> QED
  BY <1>1, <1>2, <1>5, <1>6, <1>7, <1>8, <1>9, Proceeding, Assembled DEF StateOK

LEMMA RemoveOK ==
    ASSUME Types, NEW t \in Threads, Remove(t), UNCHANGED <<setup, now, calls, faults>>
    PROVE  Types'
<1>1. PICK c, u : c = call[t] /\ u = c.user
  OBVIOUS
<1>2. At(c) = "remove" /\ CallOK(c) /\ Return(t)
  BY <1>1, AtHead DEF Remove
<1>3. u \in Users
  BY <1>1, <1>2 DEF CallOK
<1>4. TablesOK' /\ Remembered /\ \A v \in Users : Exists(v) /\ v # u => Exists(v)'
  <2>1. CASE Exists(u)
    <3>1. Update(u, Gone)
      BY <1>1, <2>1 DEF Remove
    <3> QED
      BY <1>3, <2>1, <3>1, DropRow DEF Remembered
  <2>2. CASE ~Exists(u)
    <3>1. UNCHANGED tables
      BY <1>1, <2>2 DEF Remove
    <3> QED
      BY <3>1, TablesStay DEF tables, Remembered, Exists
  <2> QED
    BY <2>1, <2>2
<1>5. SessionsOK'
  BY <1>4, SessionsStay DEF Remove
<1>6. LinksOK'
  BY <1>4, LinksStay DEF Remove, mailVars, Types, LinksOK
<1>7. RestOK'
  <2>1. keys' = {k \in keys : k.user # u}
    BY <1>1 DEF Remove
  <2>2. \A k \in keys : k.user \in Users
    BY DEF Types, RestOK
  <2>3. \A k \in keys' : Exists(k.user) => Exists(k.user)'
    BY <1>4, <2>1, <2>2
  <2> QED
    BY <2>1, <2>3, RestStays DEF Remove, Types, RestOK
<1>8. Grows
  BY <1>4, GrowsStill DEF Remove, redisVars, mailVars
<1> QED
  BY <1>1, <1>2, <1>4, <1>5, <1>6, <1>7, <1>8, Proceeding, Assembled DEF StateOK

LEMMA RoleTable ==
    ASSUME Types
    PROVE  /\ roles \in [Roles -> {NoRole} \cup RoleRows]
           /\ \A u \in Users : Exists(u) => users[u].role \in Roles /\ roles[users[u].role] # NoRole
           /\ \A r, s \in Roles : (/\ roles[r] # NoRole /\ roles[r].default
                                   /\ roles[s] # NoRole /\ roles[s].default) => r = s
<1>1. Consistent(Primary) /\ Primary.users = users /\ Primary.roles = roles
  BY DEF Types, TablesOK, Primary
<1> QED
  BY <1>1, RowOf DEF Consistent

LEMMA RemoveRoleOK ==
    ASSUME Types, NEW t \in Threads, RemoveRole(t), UNCHANGED <<setup, now, calls, faults>>
    PROVE  Types'
<1>1. PICK r, rows : r = call[t].role /\ rows = [roles EXCEPT ![r] = NoRole]
  OBVIOUS
<1>2. At(call[t]) = "remove_role" /\ Return(t)
  BY <1>1, AtHead DEF RemoveRole
<1>3. TablesOK' /\ users' = users
  <2>1. CASE \A u \in Users : Exists(u) => users[u].role # r
    <3>1. WriteRoles(rows)
      BY <1>1, <2>1 DEF RemoveRole
    <3>2. /\ rows \in [Roles -> {NoRole} \cup RoleRows]
          /\ \A s \in Roles : s # r => rows[s] = roles[s]
          /\ \A s \in Roles : rows[s] # NoRole => rows[s] = roles[s]
      BY <1>1, RoleTable
    <3>3. \A u \in Users : Exists(u) => rows[users[u].role] # NoRole
      BY <2>1, <3>2, RoleTable
    <3>4. \A q, s \in Roles : (/\ rows[q] # NoRole /\ rows[q].default
                               /\ rows[s] # NoRole /\ rows[s].default) => q = s
      BY <3>2, RoleTable
    <3> QED
      BY <3>1, <3>2, <3>3, <3>4, PutRoles
  <2>2. CASE ~(\A u \in Users : Exists(u) => users[u].role # r)
    <3>1. UNCHANGED tables
      BY <1>1, <2>2 DEF RemoveRole
    <3> QED
      BY <3>1, TablesStay DEF tables
  <2> QED
    BY <2>1, <2>2
<1>4. Remembered /\ \A v \in Users : Exists(v) => Exists(v)'
  BY <1>3 DEF Remembered, Born, Exists
<1>5. SessionsOK'
  BY <1>4, SessionsStay DEF RemoveRole
<1>6. LinksOK'
  BY <1>4, LinksStay DEF RemoveRole, mailVars, Types, LinksOK
<1>7. RestOK'
  <2>1. \A k \in keys : k.user \in Users
    BY DEF Types, RestOK
  <2> QED
    BY <1>4, <2>1, RestStays DEF RemoveRole, Types, RestOK
<1>8. Grows
  BY <1>4, GrowsStill DEF RemoveRole, redisVars, mailVars
<1> QED
  BY <1>2, <1>3, <1>5, <1>6, <1>7, <1>8, Proceeding, Assembled DEF StateOK

LEMMA CommandOK ==
    ASSUME Types, NEW t \in Threads, Command(t), UNCHANGED <<setup, now, calls, faults>>
    PROVE  Types'
  BY AuthenticateOK, CheckOK, LoadOK, RecallOK, DropJtiOK, UnindexOK, MarkOK, IndexOK, ListOK,
     SweepOK, RevokeKeysOK, ConsumeOK, MarkConfirmedOK, UpdatePasswordHashOK, ChangeEmailOK,
     RedeemInviteOK, LookFreeOK, CreateOK, PatchOK, RemoveOK, RemoveRoleOK
     DEF Command

-----------------------------------------------------------------------------
(* The other steps. *)
LEMMA FailMoves ==
    ASSUME Types, NEW t \in Threads, Fail(t)
    PROVE  \E d : /\ Moves(t, d) /\ CallOK(d)
                  /\ \/ d = Blank
                     \/ d = Onward(call[t])
                        /\ At(call[t]) \in {"recall", "drop", "unindex", "out_recall", "out_drop",
                                            "out_unindex", "index", "sweep"}
                     \/ At(call[t]) = "list" /\ At(d) = "keys" /\ d.user = call[t].user
                        /\ d.link = call[t].link /\ d.jti = call[t].jti /\ d.listed = call[t].listed
<1>1. CASE Head1(t) \in Skipped
  <2>1. GoOn(t)
    BY <1>1 DEF Fail, Skipped
  <2>2. At(call[t]) \in {"recall", "drop", "unindex", "out_recall", "out_drop", "out_unindex", "index", "sweep"}
    BY <1>1, AtHead DEF Skipped
  <2>3. PICK d : d = Onward(call[t])
    OBVIOUS
  <2>4. CallOK(d)
    BY <2>2, <2>3, AtHead, OnwardOK
  <2> QED
    BY <2>1, <2>2, <2>3, <2>4, GoesOn
<1>2. CASE Head1(t) = "list"
  <2>1. PICK c : c = call[t]
    OBVIOUS
  <2>2. At(c) = "list" /\ CallOK(c) /\ c \in Calls
    BY <1>2, <2>1, AtHead
  <2>3. Proceed(t, [c EXCEPT !.todo = Tail(@)])
    BY <1>2, <2>1 DEF Fail, Skipped
  <2>4. ~Ends(c.todo)
    BY <2>2, Continues, Places DEF At, Calls, Lasts
  <2>5. PICK b : b = Onward(c)
    OBVIOUS
  <2>6. b = [c EXCEPT !.todo = Tail(@)]
    BY <2>4, <2>5 DEF Onward, Rest
  <2>7. /\ CallOK(b) /\ At(b) = "sweep" /\ b \in Calls /\ b.user = c.user /\ b.link = c.link
        /\ b.jti = c.jti /\ b.listed = c.listed
    BY <2>2, <2>5, OnwardOK, OnwardIs, Route DEF Lasts, Follows
  <2>8. PICK d : d = Onward(b)
    OBVIOUS
  <2>9. /\ CallOK(d) /\ At(d) = "keys" /\ d.user = c.user /\ d.link = c.link
        /\ d.jti = c.jti /\ d.listed = c.listed
    BY <2>7, <2>8, OnwardOK, Route DEF Lasts, Follows
  <2>10. Moves(t, d)
    BY <2>3, <2>6, <2>8, Proceeds
  <2> QED
    BY <2>1, <2>2, <2>9, <2>10
<1>3. CASE Head1(t) \notin Skipped /\ Head1(t) # "list"
  <2>1. Return(t)
    BY <1>3 DEF Fail
  <2> QED
    BY <2>1, Returns, BlankOK
<1> QED
  BY <1>1, <1>2, <1>3

LEMMA FailOK ==
    ASSUME Types, NEW t \in Threads, Fail(t), UNCHANGED setup PROVE Types'
<1>1. access' \subseteq Tokens
  <2>1. CASE Head1(t) = "index"
    <3>1. call[t].claims \in Tokens
      BY <2>1, AtHead DEF CallOK
    <3> QED
      BY <2>1, <3>1 DEF Fail, Types, RestOK
  <2>2. CASE Head1(t) # "index"
    BY <2>2 DEF Fail, Types, RestOK
  <2> QED
    BY <2>1, <2>2
<1>2. StateOK' /\ Grows
  BY <1>1, OnlyReads DEF Fail, Types, RestOK
<1>3. PICK d : Moves(t, d) /\ CallOK(d)
  BY FailMoves
<1>4. CallOK(d)'
  BY <1>2, <1>3, CallKept
<1> QED
  BY <1>2, <1>3, <1>4, Assembled DEF Steps

LEMMA HandlersOK ==
    ASSUME Types, NEW t \in Threads, Handlers(t),
           UNCHANGED <<setup, tables, redisVars, mailVars, keys, used, access, now, faults>>
    PROVE  Types'
<1>1. PICK c : Begins(t, c)
  BY HandlersBegin
<1>2. CallOK(c) /\ Moves(t, c) /\ calls' = calls + 1
  BY <1>1 DEF Begins, Fresh
<1>3. StateOK' /\ Grows
  BY <1>2, OnlyReads DEF Types, RestOK
<1>4. CallOK(c)'
  BY <1>2, <1>3, CallKept
<1> QED
  BY <1>2, <1>3, <1>4, Assembled DEF Steps

LEMMA Unmoved ==
    ASSUME Types, StateOK', Grows, UNCHANGED call PROVE Types'
<1>1. CallsOK'
  BY CallsStay
<1> QED
  BY <1>1 DEF StateOK, Types

LEMMA DeliverIs ==
    ASSUME Types, NEW m \in mails, Deliver(m), NEW x, x = Issue(m)
    PROVE  \/ /\ Exists(m.user) /\ links' = Append(links, x) /\ x \in Links
              /\ x.user = m.user /\ x.kind = m.kind /\ x.email = m.email /\ x.effects = 0
              /\ x.exp = now + Ttl[m.kind] /\ x.to = Recipient(m)
              /\ links' \in Seq(Links) /\ Len(links') = Len(links) + 1 /\ links'[Len(links) + 1] = x
              /\ \A l \in 1..Len(links) : links'[l] = links[l]
           \/ ~Exists(m.user) /\ links' = links
<1>1. m \in Mails /\ m.user \in Users /\ m.kind \in LinkKinds /\ m.email \in Emails
  BY DEF Types, LinksOK, Mails
<1>2. links \in Seq(Links) /\ Len(links) \in Nat /\ now \in Nat
  BY DEF Types, LinksOK, RestOK
<1>3. CASE Exists(m.user)
  <2>1. users[m.user].email \in Emails
    BY <1>1, <1>3, RowOf
  <2>2. PICK a, b : a = now + Ttl[m.kind] /\ b = Recipient(m)
    OBVIOUS
  <2>3. a \in Nat /\ b \in Emails
    BY <1>1, <1>2, <2>1, <2>2, LifetimesAssumption DEF Recipient
  <2>4. x = [kind |-> m.kind, user |-> m.user, email |-> m.email, exp |-> a, to |-> b, effects |-> 0]
    BY <2>2 DEF Issue
  <2>5. x \in Links
    BY <1>1, <2>3, <2>4 DEF Links
  <2>6. links' = Append(links, x)
    BY <1>3 DEF Deliver
  <2>7. /\ links' \in Seq(Links) /\ Len(links') = Len(links) + 1 /\ links'[Len(links) + 1] = x
        /\ \A l \in 1..Len(links) : links'[l] = links[l]
    BY <1>2, <2>5, <2>6
  <2> QED
    BY <1>3, <2>2, <2>4, <2>5, <2>6, <2>7
<1>4. CASE ~Exists(m.user)
  BY <1>4 DEF Deliver
<1> QED
  BY <1>3, <1>4

LEMMA DeliverOK ==
    ASSUME Types, NEW m \in mails, Deliver(m), UNCHANGED setup PROVE Types'
<1>1. TablesOK' /\ Remembered
  BY TablesStay DEF Deliver, tables, Remembered
<1>2. SessionsOK'
  BY <1>1, SessionsStay DEF Deliver
<1>3. RestOK'
  BY RestStays DEF Deliver, tables, Exists, Types, RestOK
<1>4. PICK x : x = Issue(m)
  OBVIOUS
<1>5. mails' \subseteq mails
  BY DEF Deliver
<1>6. m.user \in Users
  BY DEF Types, LinksOK, Mails
<1>7. Exists(m.user) => Born(m.user)
  BY DEF Exists, Born, IsRow
<1>8. LinksOK' /\ Grows
  <2>1. CASE Exists(m.user)
    <3>1. /\ x.user = m.user
          /\ links' \in Seq(Links) /\ Len(links') = Len(links) + 1 /\ links'[Len(links) + 1] = x
          /\ \A l \in 1..Len(links) : links'[l] = links[l]
      BY <1>4, <2>1, DeliverIs
    <3>2. Len(links) \in Nat /\ Len(sessions) \in Nat
      BY DEF Types, LinksOK, SessionsOK
    <3>3. ASSUME NEW l \in 1..Len(links') PROVE users'[links'[l].user] # NoUser
      <4>1. CASE l = Len(links) + 1
        BY <1>1, <1>6, <1>7, <2>1, <3>1, <4>1 DEF Remembered, Born
      <4>2. CASE l # Len(links) + 1
        <5>1. l \in 1..Len(links)
          BY <3>1, <3>2, <4>2
        <5>2. Born(links[l].user) /\ links[l].user \in Users
          BY <5>1, LinkIs DEF Types, LinksOK
        <5> QED
          BY <1>1, <3>1, <5>1, <5>2 DEF Remembered, Born
      <4> QED
        BY <4>1, <4>2
    <3>4. \A r \in used' : r.link \in 1..Len(links') /\ r.until \in Nat
      BY <3>1, <3>2 DEF Deliver, Types, LinksOK
    <3>5. LinksOK'
      BY <1>5, <3>1, <3>3, <3>4 DEF LinksOK, Types, Born
    <3>6. Grows
      BY <1>1, <3>1, <3>2 DEF Grows, Deliver, redisVars, Remembered
    <3> QED
      BY <3>5, <3>6
  <2>2. CASE ~Exists(m.user)
    <3>1. UNCHANGED links
      BY <2>2 DEF Deliver
    <3>2. LinksOK'
      BY <1>1, <1>5, <3>1, LinksStay DEF Deliver, Types, LinksOK
    <3> QED
      BY <1>1, <3>1, <3>2, GrowsStill DEF Deliver, redisVars
  <2> QED
    BY <2>1, <2>2
<1>9. UNCHANGED call
  BY DEF Deliver
<1> QED
  BY <1>1, <1>2, <1>3, <1>8, <1>9, Unmoved DEF StateOK

LEMMA ReapUsedOK ==
    ASSUME Types, ReapUsed, UNCHANGED setup PROVE Types'
<1>1. TablesOK' /\ Remembered
  BY TablesStay DEF ReapUsed, tables, Remembered
<1>2. SessionsOK'
  BY <1>1, SessionsStay DEF ReapUsed
<1>3. RestOK'
  BY RestStays DEF ReapUsed, tables, Exists, Types, RestOK
<1>4. LinksOK'
  BY <1>1, LinksStay DEF ReapUsed, mailVars, Types, LinksOK
<1>5. Grows
  BY <1>1, GrowsStill DEF ReapUsed, redisVars, mailVars
<1>6. UNCHANGED call
  BY DEF ReapUsed
<1> QED
  BY <1>1, <1>2, <1>3, <1>4, <1>5, <1>6, Unmoved DEF StateOK

LEMMA TickOK ==
    ASSUME Types, Tick, UNCHANGED setup PROVE Types'
<1>1. StateOK' /\ Grows
  BY OnlyReads DEF Tick, Types, RestOK
<1> QED
  BY <1>1, Unmoved DEF Tick

LEMMA AccessExpiresOK ==
    ASSUME Types, NEW a \in access, AccessExpires(a), UNCHANGED setup PROVE Types'
<1>1. StateOK' /\ Grows
  BY OnlyReads DEF AccessExpires, Types, RestOK
<1> QED
  BY <1>1, Unmoved DEF AccessExpires

LEMMA CatchUpOK ==
    ASSUME Types, CatchUp, UNCHANGED setup PROVE Types'
<1>1. TablesOK' /\ Remembered
  BY TablesStay DEF CatchUp, Primary, Remembered
<1>2. SessionsOK'
  BY <1>1, SessionsStay DEF CatchUp
<1>3. RestOK'
  BY RestStays DEF CatchUp, Exists, Types, RestOK
<1>4. LinksOK'
  BY <1>1, LinksStay DEF CatchUp, mailVars, Types, LinksOK
<1>5. Grows
  BY <1>1, GrowsStill DEF CatchUp, redisVars, mailVars
<1>6. UNCHANGED call
  BY DEF CatchUp
<1> QED
  BY <1>1, <1>2, <1>3, <1>4, <1>5, <1>6, Unmoved DEF StateOK

LEMMA AskOK ==
    ASSUME Types, NEW kind \in LinkKinds, NEW u \in Users, NEW e \in Emails, Ask(kind, u, e),
           UNCHANGED <<setup, call, now, faults>>, calls' = calls + 1
    PROVE  Types'
<1>1. TablesOK' /\ Remembered
  BY TablesStay DEF Ask, tables, Remembered
<1>2. SessionsOK'
  BY <1>1, SessionsStay DEF Ask
<1>3. RestOK'
  BY RestStays DEF Ask, tables, Exists, Types, RestOK
<1>4. [kind |-> kind, user |-> u, email |-> e] \in Mails
  BY DEF Mails
<1>5. mails' \subseteq Mails
  BY <1>4 DEF Ask, Types, LinksOK
<1>6. LinksOK'
  BY <1>1, <1>5, LinksStay DEF Ask
<1>7. Grows
  BY <1>1, GrowsStill DEF Ask, redisVars
<1> QED
  BY <1>1, <1>2, <1>3, <1>6, <1>7, Unmoved DEF StateOK

LEMMA ReplicaRow ==
    ASSUME Types, NEW u \in Users, IsRow(replica.users[u])
    PROVE  replica.users[u] \in Rows /\ replica.users[u].email \in Emails
<1>1. replica.users[u] \in Rows
  BY RowFacts DEF Types, TablesOK
<1> QED
  BY <1>1 DEF Rows

LEMMA AskersOK ==
    ASSUME Types, UNCHANGED <<setup, now, faults>>,
           \/ \E e \in Emails : RequestReset(e)
           \/ \E c \in Principals : ResendConfirm(c)
           \/ \E c \in Principals, e \in Emails, p \in Passwords : RequestChangeEmail(c, e, p)
    PROVE  Types'
<1>1. ASSUME NEW e \in Emails, RequestReset(e) PROVE Types'
  <2>1. ByEmail(replica.users, e) \in Users
    BY <1>1, ByEmailIs DEF RequestReset
  <2> QED
    BY <1>1, <2>1, AskOK DEF RequestReset, Quick, LinkKinds
<1>2. ASSUME NEW c \in Principals, ResendConfirm(c) PROVE Types'
  <2>1. c.user \in Users
    BY PrincipalsAre DEF Tokens
  <2>2. replica.users[c.user].email \in Emails
    BY <1>2, <2>1, ReplicaRow DEF ResendConfirm
  <2> QED
    BY <1>2, <2>1, <2>2, AskOK DEF ResendConfirm, Quick, LinkKinds
<1>3. ASSUME NEW c \in Principals, NEW e \in Emails, NEW p \in Passwords, RequestChangeEmail(c, e, p)
      PROVE  Types'
  <2>1. c.user \in Users
    BY PrincipalsAre DEF Tokens
  <2> QED
    BY <1>3, <2>1, AskOK DEF RequestChangeEmail, Quick, LinkKinds
<1> QED
  BY <1>1, <1>2, <1>3

LEMMA DefaultIs ==
    ASSUME Types, NEW r \in Roles, NEW row \in RoleRows, NEW rows, rows = AsDefault(r, row)
    PROVE  /\ rows \in [Roles -> {NoRole} \cup RoleRows] /\ rows[r] = row
           /\ \A s \in Roles : roles[s] # NoRole => rows[s] # NoRole
           /\ \A q, s \in Roles : (/\ rows[q] # NoRole /\ rows[q].default
                                   /\ rows[s] # NoRole /\ rows[s].default) => q = s
<1>1. roles \in [Roles -> {NoRole} \cup RoleRows] /\ row # NoRole /\ row.default \in BOOLEAN
  BY RoleTable, NamesAssumption DEF RoleRows
<1>2. ASSUME NEW s \in Roles
      PROVE  /\ rows[s] \in {NoRole} \cup RoleRows
             /\ s = r => rows[s] = row
             /\ s # r /\ roles[s] = NoRole => rows[s] = NoRole
             /\ s # r /\ roles[s] # NoRole /\ row.default =>
                   rows[s] # NoRole /\ ~rows[s].default
             /\ s # r /\ ~row.default => rows[s] = roles[s]
  <2>1. PICK x, y : x = roles[s] /\ y = [roles[s] EXCEPT !.default = FALSE]
    OBVIOUS
  <2>2. rows[s] = IF s = r THEN row ELSE IF row.default /\ x # NoRole THEN y ELSE x
    BY <2>1 DEF AsDefault
  <2>3. x # NoRole => x \in RoleRows
    BY <1>1, <2>1
  <2>4. x # NoRole => y \in RoleRows /\ ~y.default
    BY <2>1, <2>3 DEF RoleRows
  <2>5. NoRole \notin RoleRows
    BY NamesAssumption
  <2> QED
    BY <1>1, <2>1, <2>2, <2>3, <2>4, <2>5
<1>3. rows \in [Roles -> {NoRole} \cup RoleRows]
  BY <1>2 DEF AsDefault
<1>4. \A q, s \in Roles : (/\ rows[q] # NoRole /\ rows[q].default
                           /\ rows[s] # NoRole /\ rows[s].default) => q = s
  <2>1. CASE row.default
    <3>1. \A s \in Roles : s # r => rows[s] = NoRole \/ ~rows[s].default
      BY <1>2, <2>1
    <3> QED
      BY <3>1
  <2>2. CASE ~row.default
    <3>1. ~rows[r].default /\ \A s \in Roles : s # r => rows[s] = roles[s]
      BY <1>2, <2>2
    <3> QED
      BY <3>1, RoleTable
  <2> QED
    BY <2>1, <2>2
<1> QED
  BY <1>1, <1>2, <1>3, <1>4

LEMMA PutRoleOK ==
    ASSUME Types, NEW c, NEW r \in Roles, NEW isNew, NEW row \in RoleRows, PutRole(c, r, isNew, row),
           UNCHANGED <<setup, now, faults>>
    PROVE  Types'
<1>1. PICK rows : rows = AsDefault(r, row)
  OBVIOUS
<1>2. WriteRoles(rows)
  BY <1>1 DEF PutRole
<1>3. TablesOK' /\ users' = users
  BY <1>1, <1>2, DefaultIs, RoleTable, PutRoles
<1>4. Remembered /\ \A v \in Users : Exists(v) => Exists(v)'
  BY <1>3 DEF Remembered, Born, Exists
<1>5. SessionsOK'
  BY <1>4, SessionsStay DEF PutRole
<1>6. LinksOK'
  BY <1>4, LinksStay DEF PutRole, mailVars, Types, LinksOK
<1>7. RestOK'
  <2>1. \A k \in keys : k.user \in Users
    BY DEF Types, RestOK
  <2> QED
    BY <1>4, <2>1, RestStays DEF PutRole, Quick, Types, RestOK
<1>8. Grows
  BY <1>4, GrowsStill DEF PutRole, redisVars, mailVars
<1> QED
  BY <1>3, <1>5, <1>6, <1>7, <1>8, Unmoved DEF StateOK, PutRole, Quick

LEMMA KeysOK ==
    ASSUME Types, NEW c \in Principals, CreateKey(c) \/ \E k \in keys : RevokeKey(c, k),
           UNCHANGED <<setup, now, faults>>
    PROVE  Types'
<1>1. UNCHANGED <<tables, redisVars, mailVars, used, access, call>> /\ calls' = calls + 1
  BY DEF CreateKey, RevokeKey, Quick
<1>2. TablesOK' /\ Remembered
  BY <1>1, TablesStay DEF tables, Remembered
<1>3. SessionsOK'
  BY <1>1, <1>2, SessionsStay
<1>4. LinksOK'
  BY <1>1, <1>2, LinksStay DEF mailVars, Types, LinksOK
<1>5. c.user \in Users
  BY PrincipalsAre DEF Tokens
<1>6. \A k \in keys' : k.user \in Users /\ Exists(k.user)
  <2>1. CASE CreateKey(c)
    <3>1. PICK x : x = [id |-> calls', user |-> c.user, password |-> users[c.user].password]
      OBVIOUS
    <3>2. keys' = keys \cup {x} /\ x.user = c.user /\ Exists(c.user)
      BY <2>1, <3>1 DEF CreateKey
    <3> QED
      BY <1>5, <3>2 DEF Types, RestOK
  <2>2. CASE \E k \in keys : RevokeKey(c, k)
    BY <2>2 DEF RevokeKey, Types, RestOK
  <2> QED
    BY <2>1, <2>2
<1>7. RestOK'
  BY <1>1, <1>6 DEF RestOK, Types, tables, Exists
<1>8. Grows
  BY <1>1, <1>2, GrowsStill DEF redisVars, mailVars
<1> QED
  BY <1>1, <1>2, <1>3, <1>4, <1>7, <1>8, Unmoved DEF StateOK

LEMMA QuickHandlersOK ==
    ASSUME Types, QuickHandlers, UNCHANGED <<setup, now, faults>> PROVE Types'
<1>1. ASSUME NEW c \in Principals, NEW r \in Roles, NEW isNew \in BOOLEAN, NEW adm \in BOOLEAN,
             NEW dflt \in BOOLEAN, PutRole(c, r, isNew, [admin |-> adm, default |-> dflt])
      PROVE  Types'
  <2>1. [admin |-> adm, default |-> dflt] \in RoleRows
    BY DEF RoleRows
  <2> QED
    BY <1>1, <2>1, PutRoleOK
<1> QED
  BY <1>1, AskersOK, KeysOK DEF QuickHandlers

-----------------------------------------------------------------------------
LEMMA TypesInit == Init => Types
<1> SUFFICES ASSUME Init PROVE Types
  OBVIOUS
<1>1. /\ setup \in Setups /\ Consistent([users |-> setup.users, roles |-> setup.roles])
      /\ setup.access \subseteq Tokens
  BY SetupsAssumption DEF Init
<1>2. TablesOK
  <2>1. Consistent(Primary) /\ replica = Primary
    BY <1>1 DEF Init, Primary
  <2>2. \A u \in Users : IsRow(replica.users[u]) => Born(u)
    BY <2>1 DEF Primary, IsRow, Born
  <2> QED
    BY <2>1, <2>2 DEF TablesOK
<1>3. SessionsOK
  BY DEF Init, SessionsOK
<1>4. LinksOK
  BY DEF Init, LinksOK
<1>5. RestOK
  BY <1>1 DEF Init, RestOK
<1>6. CallsOK
  BY BlankOK DEF Init, CallsOK
<1> QED
  BY <1>2, <1>3, <1>4, <1>5, <1>6 DEF Types

LEMMA TypesNext == Types /\ [Next]_vars => Types'
<1> SUFFICES ASSUME Types, [Next]_vars PROVE Types'
  OBVIOUS
<1>1. CASE UNCHANGED vars
  <2>1. StateOK' /\ Grows
    BY <1>1, OnlyReads DEF vars, Types, RestOK
  <2> QED
    BY <1>1, <2>1, Unmoved DEF vars
<1>2. CASE Next
  <2>1. setup' = setup
    BY <1>2 DEF Next
  <2>2. CASE \E t \in Threads :
                 /\ Handlers(t)
                 /\ UNCHANGED <<tables, redisVars, mailVars, keys, used, access, now, faults>>
    BY <2>1, <2>2, HandlersOK
  <2>3. CASE \E t \in Threads : Command(t) /\ UNCHANGED <<now, calls, faults>>
    BY <2>1, <2>3, CommandOK
  <2>4. CASE \E t \in Threads : Fail(t)
    BY <2>1, <2>4, FailOK
  <2>5. CASE QuickHandlers /\ UNCHANGED <<now, faults>>
    BY <2>1, <2>5, QuickHandlersOK
  <2>6. CASE \E m \in mails : Deliver(m)
    BY <2>1, <2>6, DeliverOK
  <2>7. CASE \E a \in access : AccessExpires(a)
    BY <2>1, <2>7, AccessExpiresOK
  <2>8. CASE ReapUsed \/ Tick \/ CatchUp
    BY <2>1, <2>8, ReapUsedOK, TickOK, CatchUpOK
  <2> QED
    BY <1>2, <2>2, <2>3, <2>4, <2>5, <2>6, <2>7, <2>8 DEF Next, Step
<1> QED
  BY <1>1, <1>2

(* The tables keep their constraints under every interleaving of handlers,   *)
(* and no index entry, key or used link dangles.                             *)
THEOREM TypeCorrectness == Spec => []TypeOK
<1>1. Types => TypeOK
  BY DEF Types, TablesOK, SessionsOK, LinksOK, RestOK, Primary, TypeOK
<1> QED
  BY <1>1, TypesInit, TypesNext, PTL DEF Spec

-----------------------------------------------------------------------------
(* What a command makes of the handler that sent it, *)
Turn(c, d) ==
    \/ d = Blank
    \/ /\ d.link = c.link
       /\ \/ Follows(At(c), At(d))
          \/ At(c) = "load" /\ At(d) = "out_recall"
          \/ At(c) = "list" /\ At(d) = "keys"
       /\ At(c) # "authenticate" => d.user = c.user
       /\ At(c) # "mark" => d.jti = c.jti
       /\ At(c) \notin {"recall", "out_recall", "list"} => d.listed = c.listed

LEMMA GoOnTurns ==
    ASSUME Types, NEW t \in Threads, GoOn(t) \/ Return(t), At(call[t]) # "idle"
    PROVE  \E d : Moves(t, d) /\ Turn(call[t], d)
<1>1. CASE Return(t)
  BY <1>1, Returns DEF Turn
<1>2. CASE GoOn(t)
  <2>1. PICK c, d : c = call[t] /\ d = Onward(c)
    OBVIOUS
  <2>2. c \in Calls
    BY <2>1, AtHead
  <2>3. Turn(c, d)
    BY <1>2, <2>1, <2>2, Route DEF Turn
  <2> QED
    BY <1>2, <2>1, <2>3, GoesOn
<1> QED
  BY <1>1, <1>2

LEMMA CommandTurns ==
    ASSUME Types, NEW t \in Threads, Command(t)
    PROVE  \E d : Moves(t, d) /\ Turn(call[t], d)
<1>1. PICK c : c = call[t]
  OBVIOUS
<1>2. c \in Calls /\ CallOK(c)
  BY <1>1, AtHead
<1>3. CASE Authenticate(t)
  <2>1. CASE Return(t)
    BY <2>1, Returns DEF Turn
  <2>2. CASE ~Return(t)
    <3>1. PICK u : u = ByEmail(replica.users, c.email)
      OBVIOUS
    <3>2. /\ Taken(replica.users, c.email)
          /\ Proceed(t, [c EXCEPT !.user = u, !.claims = Claims(u, replica)])
      BY <1>1, <1>3, <2>2, <3>1 DEF Authenticate
    <3>3. u \in Users /\ IsRow(replica.users[u])
      BY <3>1, <3>2, ByEmailIs
    <3>4. PICK d : d = Onward([c EXCEPT !.user = u, !.claims = Claims(u, replica)])
      OBVIOUS
    <3>5. CallOK(c) /\ At(c) = "authenticate"
      BY <1>1, <1>3, AtHead DEF Authenticate
    <3>6. LoggedIn(c, u, d)
      BY <3>3, <3>4, <3>5, Authenticated
    <3>7. Turn(c, d)
      BY <3>5, <3>6 DEF Turn, Follows, LoggedIn, CallOK
    <3> QED
      BY <1>1, <3>2, <3>4, <3>7, Proceeds
  <2> QED
    BY <2>1, <2>2
<1>4. CASE Load(t)
  <2>1. PICK d : d = Onward(IF IsRow(replica.users[c.user])
                            THEN [c EXCEPT !.claims = Claims(c.user, replica)]
                            ELSE [c EXCEPT !.todo = <<"load">> \o Drop])
    OBVIOUS
  <2>2. Moves(t, d)
    BY <1>1, <1>4, <2>1, Proceeds DEF Load
  <2>3. At(c) = "load"
    BY <1>1, <1>4, AtHead DEF Load
  <2>4. /\ d.user = c.user /\ d.jti = c.jti /\ d.link = c.link /\ d.listed = c.listed
        /\ At(d) \in {"recall", "out_recall"}
    BY <1>2, <2>1, <2>3, Loaded
  <2>5. Turn(c, d)
    BY <2>3, <2>4 DEF Turn, Follows
  <2> QED
    BY <1>1, <2>2, <2>5
<1>5. CASE Recall(t)
  <2>1. PICK n, d : n = {c.jti} \cap live /\ d = Onward([c EXCEPT !.listed = n])
    OBVIOUS
  <2>2. n \in SUBSET Nat
    BY <1>2, <2>1 DEF Calls
  <2>3. Moves(t, d)
    BY <1>1, <1>5, <2>1, Proceeds DEF Recall
  <2>4. At(c) \in {"recall", "out_recall"}
    BY <1>1, <1>5, AtHead DEF Recall
  <2>5. Turn(c, d)
    BY <1>2, <2>1, <2>2, <2>4, Noted DEF Turn
  <2> QED
    BY <1>1, <2>3, <2>5
<1>6. CASE List(t)
  <2>1. PICK n, d : n = index[c.user] /\ d = Onward([c EXCEPT !.listed = n])
    OBVIOUS
  <2>2. At(c) = "list"
    BY <1>1, <1>6, AtHead DEF List
  <2>3. n \in SUBSET Nat
    BY <1>2, <2>1, <2>2 DEF CallOK, Types, SessionsOK
  <2>4. Moves(t, d)
    BY <1>1, <1>6, <2>1, Proceeds DEF List
  <2>5. Turn(c, d)
    BY <1>2, <2>1, <2>2, <2>3, Noted DEF Turn
  <2> QED
    BY <1>1, <2>4, <2>5
<1>7. CASE Mark(t)
  <2>1. PICK j : j = Len(sessions) + 1
    OBVIOUS
  <2>2. PICK d : d = Onward([c EXCEPT !.jti = j])
    OBVIOUS
  <2>3. c \in Calls /\ j \in Nat /\ At(c) = "mark"
    BY <1>1, <1>2, <1>7, <2>1, MarkIs DEF CallOK
  <2>4. Moves(t, d)
    BY <1>1, <1>7, <2>1, <2>2, Proceeds DEF Mark
  <2>5. At(d) = "index" /\ d.user = c.user /\ d.link = c.link /\ d.listed = c.listed
    BY <2>2, <2>3, Marked
  <2>6. Turn(c, d)
    BY <2>3, <2>5 DEF Turn, Follows
  <2> QED
    BY <1>1, <2>4, <2>6
<1>8. CASE /\ ~Authenticate(t) /\ ~Load(t) /\ ~Recall(t) /\ ~List(t) /\ ~Mark(t)
  <2>1. /\ GoOn(t) \/ Return(t)
        /\ Head1(t) \in {"check", "drop", "unindex", "index", "sweep", "keys", "consume", "confirm", "hash",
                         "move", "redeem", "free", "create", "patch", "remove", "remove_role"}
    BY <1>8 DEF Command, Check, DropJti, Unindex, Index, Sweep, RevokeKeys, Consume, MarkConfirmed,
                UpdatePasswordHash, ChangeEmail, RedeemInvite, Write, LookFree, Create, Patch, Remove, RemoveRole
  <2>2. At(call[t]) # "idle"
    BY <2>1, AtHead
  <2> QED
    BY <2>1, <2>2, GoOnTurns
<1> QED
  BY <1>3, <1>4, <1>5, <1>6, <1>7, <1>8

LEMMA FailTurns ==
    ASSUME Types, NEW t \in Threads, Fail(t)
    PROVE  \E d : Moves(t, d) /\ Turn(call[t], d)
<1>1. PICK d : /\ Moves(t, d) /\ CallOK(d)
               /\ \/ d = Blank
                  \/ d = Onward(call[t])
                     /\ At(call[t]) \in {"recall", "drop", "unindex", "out_recall", "out_drop",
                                         "out_unindex", "index", "sweep"}
                  \/ At(call[t]) = "list" /\ At(d) = "keys" /\ d.user = call[t].user
                     /\ d.link = call[t].link /\ d.jti = call[t].jti /\ d.listed = call[t].listed
  BY FailMoves
<1>2. CASE d = Blank
  BY <1>1, <1>2 DEF Turn
<1>3. CASE d = Onward(call[t]) /\ At(call[t]) # "idle"
  <2>1. PICK c : c = call[t]
    OBVIOUS
  <2>2. c \in Calls
    BY <2>1, AtHead
  <2>3. Turn(c, d)
    BY <1>3, <2>1, <2>2, Route DEF Turn
  <2> QED
    BY <1>1, <2>1, <2>3
<1>4. CASE At(call[t]) = "list" /\ At(d) = "keys" /\ d.user = call[t].user
            /\ d.link = call[t].link /\ d.jti = call[t].jti
  BY <1>1, <1>4 DEF Turn
<1> QED
  BY <1>1, <1>2, <1>3, <1>4

(* and what to the row of a user. *)
RowStep(t, u) ==
    \/ users'[u] = users[u]
    \/ ~Exists(u)'
    \/ /\ users[u] = NoUser /\ Exists(u)' /\ At(call[t]) = "create" /\ call[t].user = u
       /\ users'[u].confirmed = call[t].confirmed
    \/ /\ Exists(u) /\ Exists(u)' /\ call[t].user = u
       /\ \/ users'[u].email = users[u].email
          \/ At(call[t]) = "patch"
          \/ At(call[t]) = "move" /\ users'[u].email = call[t].email /\ Effect(call[t].link)
       /\ \/ users'[u].password = users[u].password
          \/ At(call[t]) \in {"hash", "redeem"} /\ GoOn(t)
       /\ \/ users'[u].confirmed = users[u].confirmed
          \/ At(call[t]) \in {"confirm", "redeem"} /\ users'[u].confirmed = TRUE /\ Effect(call[t].link)

LEMMA Updated ==
    ASSUME Types, NEW u, NEW row, Update(u, row), NEW v \in Users
    PROVE  users'[v] = IF v = u THEN row ELSE users[v]
<1>1. users \in [Users -> {NoUser, Gone} \cup Rows]
  BY DEF Types, TablesOK, Consistent, Primary
<1> QED
  BY <1>1 DEF Update, WriteUsers

LEMMA RowSteps ==
    ASSUME Types, NEW t \in Threads, Command(t), NEW u \in Users
    PROVE  RowStep(t, u)
<1>1. PICK c : c = call[t]
  OBVIOUS
<1>2. c \in Calls /\ CallOK(c)
  BY <1>1, AtHead
<1>3. CASE UNCHANGED users
  BY <1>3 DEF RowStep
<1>4. ASSUME NEW row, Update(c.user, row), u # c.user PROVE RowStep(t, u)
  BY <1>4, Updated DEF RowStep
<1>5. ASSUME NEW row, Update(c.user, row), row \in Rows, u = c.user
      PROVE  users'[u] = row /\ Exists(u)'
  <2>1. users'[u] = row
    BY <1>5, Updated
  <2> QED
    BY <1>5, <2>1, RowsAre DEF Exists
<1>6. CASE users' # users /\ MarkConfirmed(t)
  <2>1. PICK row : row = [users[c.user] EXCEPT !.confirmed = TRUE]
    OBVIOUS
  <2>2. Exists(c.user) /\ Update(c.user, row) /\ Effect(c.link) /\ At(c) = "confirm"
    BY <1>1, <1>6, <2>1, AtHead DEF MarkConfirmed, Write, tables
  <2>3. CASE u = c.user
    <3>1. users[u] \in Rows
      BY <2>2, <2>3, RowOf
    <3>2. row \in Rows /\ row.email = users[u].email /\ row.password = users[u].password /\ row.confirmed = TRUE
      BY <2>1, <2>3, <3>1 DEF Rows
    <3> QED
      BY <1>1, <1>5, <2>2, <2>3, <3>2 DEF RowStep
  <2> QED
    BY <1>4, <2>2, <2>3
<1>7. CASE users' # users /\ UpdatePasswordHash(t)
  <2>1. PICK row : row = [users[c.user] EXCEPT !.password = c.password]
    OBVIOUS
  <2>2. Exists(c.user) /\ Update(c.user, row) /\ GoOn(t) /\ At(c) = "hash"
    BY <1>1, <1>7, <2>1, AtHead DEF UpdatePasswordHash, Write, tables
  <2>3. CASE u = c.user
    <3>1. users[u] \in Rows /\ c.password \in Passwords \cup {NoPassword}
      BY <1>2, <2>2, <2>3, RowOf DEF Calls
    <3>2. row \in Rows /\ row.email = users[u].email /\ row.confirmed = users[u].confirmed
      BY <2>1, <2>3, <3>1 DEF Rows
    <3> QED
      BY <1>1, <1>5, <2>2, <2>3, <3>2 DEF RowStep
  <2> QED
    BY <1>4, <2>2, <2>3
<1>8. CASE users' # users /\ ChangeEmail(t)
  <2>1. PICK row : row = [users[c.user] EXCEPT !.email = c.email]
    OBVIOUS
  <2>2. Exists(c.user) /\ Update(c.user, row) /\ Effect(c.link) /\ At(c) = "move"
    BY <1>1, <1>8, <2>1, AtHead DEF ChangeEmail, Write, tables
  <2>3. CASE u = c.user
    <3>1. users[u] \in Rows /\ c.email \in Emails
      BY <1>2, <2>2, <2>3, RowOf, LinkIs DEF CallOK, Comes, Types, LinksOK
    <3>2. /\ row \in Rows /\ row.email = c.email /\ row.confirmed = users[u].confirmed
          /\ row.password = users[u].password
      BY <2>1, <2>3, <3>1 DEF Rows
    <3> QED
      BY <1>1, <1>5, <2>2, <2>3, <3>2 DEF RowStep
  <2> QED
    BY <1>4, <2>2, <2>3
<1>9. CASE users' # users /\ RedeemInvite(t)
  <2>1. PICK row : row = [users[c.user] EXCEPT !.confirmed = TRUE, !.password = c.password]
    OBVIOUS
  <2>2. Exists(c.user) /\ Update(c.user, row) /\ Effect(c.link) /\ At(c) = "redeem" /\ GoOn(t)
    BY <1>1, <1>9, <2>1, AtHead DEF RedeemInvite, Write, tables
  <2>3. CASE u = c.user
    <3>1. users[u] \in Rows /\ c.password \in Passwords \cup {NoPassword}
      BY <1>2, <2>2, <2>3, RowOf DEF Calls
    <3>2. row \in Rows /\ row.email = users[u].email /\ row.confirmed = TRUE
      BY <2>1, <2>3, <3>1 DEF Rows
    <3> QED
      BY <1>1, <1>5, <2>2, <2>3, <3>2 DEF RowStep
  <2> QED
    BY <1>4, <2>2, <2>3
<1>10. CASE users' # users /\ Create(t)
  <2>1. PICK row : row = [email |-> c.email, password |-> c.password, role |-> c.role,
                          confirmed |-> c.confirmed]
    OBVIOUS
  <2>2. users[c.user] = NoUser /\ Update(c.user, row) /\ At(c) = "create"
    BY <1>1, <1>10, <2>1, AtHead DEF Create, tables
  <2>3. CASE u = c.user
    <3>1. row \in Rows /\ row.confirmed = c.confirmed
      BY <1>2, <2>1, <2>2 DEF Rows, Calls, CallOK
    <3> QED
      BY <1>1, <1>5, <2>2, <2>3, <3>1 DEF RowStep
  <2> QED
    BY <1>4, <2>2, <2>3
<1>11. CASE users' # users /\ Patch(t)
  <2>1. PICK row : row = [users[c.user] EXCEPT !.email = IF c.email = "" THEN @ ELSE c.email,
                                               !.role = IF c.role = NoRole THEN @ ELSE c.role]
    OBVIOUS
  <2>2. Exists(c.user) /\ Update(c.user, row) /\ At(c) = "patch"
    BY <1>1, <1>11, <2>1, AtHead DEF Patch, tables
  <2>3. CASE u = c.user
    <3>1. users[u] \in Rows /\ c.email \in Emails \cup {""} /\ c.role \in Roles \cup {NoRole}
      BY <1>2, <2>2, <2>3, RowOf DEF Calls
    <3>2. row \in Rows /\ row.password = users[u].password /\ row.confirmed = users[u].confirmed
      BY <2>1, <2>3, <3>1 DEF Rows
    <3> QED
      BY <1>1, <1>5, <2>2, <2>3, <3>2 DEF RowStep
  <2> QED
    BY <1>4, <2>2, <2>3
<1>12. CASE users' # users /\ Remove(t)
  <2>1. Update(c.user, Gone)
    BY <1>1, <1>12 DEF Remove, tables
  <2>2. CASE u = c.user
    <3>1. users'[u] = Gone
      BY <2>1, <2>2, Updated
    <3> QED
      BY <3>1 DEF RowStep, Exists, IsRow
  <2> QED
    BY <1>4, <2>1, <2>2
<1>13. users' # users => \/ MarkConfirmed(t) \/ UpdatePasswordHash(t) \/ ChangeEmail(t) \/ RedeemInvite(t)
                         \/ Create(t) \/ Patch(t) \/ Remove(t)
  BY DEF Command, Authenticate, Check, Load, Recall, DropJti, Unindex, Mark, Index, List, Sweep,
         RevokeKeys, Consume, LookFree, RemoveRole, WriteRoles, tables
<1> QED
  BY <1>3, <1>6, <1>7, <1>8, <1>9, <1>10, <1>11, <1>12, <1>13

-----------------------------------------------------------------------------
(* LinkWorksOnce.  Between the unit of time in which a link was verified and *)
(* its end, used_tokens holds a row for it as soon as one handler is past    *)
(* consume_once(): that is what the lifetime of the rows is for.             *)
Settled(u) == ~Exists(u) \/ users[u].confirmed
Spent(l) == now > links[l].exp \/ \E r \in used : r.link = l
Works == {"confirm", "hash", "move"}
Pends(t, l) == At(call[t]) \in Works /\ call[t].link = l
LinkTimes ==
    /\ \A l \in 1..Len(links) : links[l].exp <= now + Ttl[links[l].kind]
    /\ \A r \in used : links[r.link].exp <= r.until
    /\ \A t \in Threads : At(call[t]) \in Consumers => now <= links[call[t].link].exp
OneUse ==
    /\ \A l \in 1..Len(links) : links[l].kind # "invite" =>
          /\ links[l].effects <= 1
          /\ links[l].effects > 0 => Spent(l)
    /\ \A t \in Threads, l \in 1..Len(links) : Pends(t, l) =>
          /\ Spent(l) /\ links[l].effects = 0
          /\ \A u \in Threads : Pends(u, l) => u = t
OneInvite ==
    /\ \A l \in 1..Len(links) : links[l].kind = "invite" =>
          links[l].effects <= 1 /\ (links[l].effects > 0 => Settled(links[l].user))
    /\ \A l, m \in 1..Len(links) :
          /\ l # m /\ links[l].kind = "invite" /\ links[m].kind = "invite"
          /\ links[l].user = links[m].user
          => links[l].effects = 0 \/ links[m].effects = 0
LinkInv == LinkTimes /\ OneUse /\ OneInvite

LEMMA Frame ==
    ASSUME Types, NEW t \in Threads, NEW d, Moves(t, d)
    PROVE  call'[t] = d /\ \A u \in Threads : u # t => call'[u] = call[u]
  BY DEF Types, CallsOK, Moves

LEMMA AtStays ==
    ASSUME NEW t, NEW c, c = call'[t] PROVE At(call[t])' = At(c)
  BY DEF At, Place

(* No thread comes to consume_once() but in time, and none past it. *)
LEMMA LinkQuiet ==
    ASSUME Types, Types', LinkInv, UNCHANGED <<links, used, now>>,
           \A u \in Users : Born(u) /\ Settled(u) => Settled(u)',
           NEW t \in Threads, NEW d, Moves(t, d),
           At(d) \in Consumers => now <= links[d.link].exp,
           At(d) \in Works => d.link = 0
    PROVE  LinkInv'
<1>1. call'[t] = d /\ \A u \in Threads : u # t => call'[u] = call[u]
  BY Frame
<1>2. ASSUME NEW u \in Threads PROVE At(call[u])' = IF u = t THEN At(d) ELSE At(call[u])
  BY <1>1, AtStays
<1>3. ASSUME NEW u \in Threads, NEW l \in 1..Len(links), Pends(u, l)' PROVE Pends(u, l) /\ u # t
  <2>1. CASE u = t
    <3>1. At(d) \in Works /\ d.link = l
      BY <1>1, <1>2, <1>3, <2>1 DEF Pends
    <3> QED
      BY <3>1
  <2>2. CASE u # t
    BY <1>1, <1>2, <1>3, <2>2 DEF Pends
  <2> QED
    BY <2>1, <2>2
<1>4. \A l : Spent(l)' = Spent(l)
  BY DEF Spent
<1>5. ASSUME NEW u \in Threads, At(call[u])' \in Consumers PROVE now <= links[call'[u].link].exp
  BY <1>1, <1>2, <1>5 DEF LinkInv, LinkTimes
<1>6. LinkTimes'
  BY <1>5 DEF LinkInv, LinkTimes
<1>7. OneUse'
  BY <1>3, <1>4 DEF LinkInv, OneUse
<1>8. \A l \in 1..Len(links) : Settled(links[l].user) => Settled(links[l].user)'
  <2>1. \A l \in 1..Len(links) : links[l].user \in Users /\ Born(links[l].user)
    BY LinkIs DEF Types, LinksOK
  <2> QED
    BY <2>1 DEF Settled
<1>9. OneInvite'
  BY <1>8 DEF LinkInv, OneInvite
<1> QED
  BY <1>6, <1>7, <1>9 DEF LinkInv

LEMMA SettledStays ==
    ASSUME Types, NEW t \in Threads, Command(t), NEW u \in Users, Born(u), Settled(u)
    PROVE  Settled(u)'
<1>1. RowStep(t, u)
  BY RowSteps
<1>2. ~Exists(u) => users'[u] = users[u] \/ ~Exists(u)'
  BY <1>1 DEF RowStep, Born
<1>3. users'[u] = users[u] => Settled(u)'
  BY DEF Settled, Exists
<1>4. ~Exists(u)' => Settled(u)'
  BY DEF Settled, Exists
<1>5. CASE Exists(u) /\ users'[u] # users[u] /\ Exists(u)'
  <2>1. users[u].confirmed = TRUE
    BY <1>5, RowOf DEF Settled
  <2>2. users[u] # NoUser
    BY DEF Born
  <2>3. users'[u].confirmed = users[u].confirmed \/ users'[u].confirmed = TRUE
    BY <1>1, <1>5, <2>2 DEF RowStep
  <2> QED
    BY <2>1, <2>3 DEF Settled
<1> QED
  BY <1>2, <1>3, <1>4, <1>5

(* A command that neither consumes nor writes for a link. *)
LEMMA TurnsQuiet ==
    ASSUME Types, LinkInv, NEW t \in Threads, NEW d, Turn(call[t], d),
           d = Blank \/ At(call[t]) \notin {"consume_confirm", "consume_hash", "consume_move"}
    PROVE  /\ At(d) \in Consumers => now <= links[d.link].exp
           /\ At(d) \in Works => d.link = 0
<1>1. CASE d = Blank
  <2>1. At(d) = "idle"
    BY <1>1, BlankOK
  <2> QED
    BY <2>1 DEF Consumers, Works
<1>2. CASE d # Blank
  <2>1. PICK c : c = call[t]
    OBVIOUS
  <2>2. At(d) \in Consumers => At(c) \in Consumers /\ d.link = c.link
    BY <1>2, <2>1 DEF Turn, Follows, Consumers
  <2>3. At(d) \notin Works
    BY <1>2, <2>1 DEF Turn, Follows, Works
  <2> QED
    BY <2>1, <2>2, <2>3 DEF LinkInv, LinkTimes
<1> QED
  BY <1>1, <1>2

LEMMA LinkCommand ==
    ASSUME Types, Types', LinkInv, NEW t \in Threads, Command(t) \/ Fail(t), UNCHANGED <<links, used, now>>,
           \/ At(call[t]) \notin {"consume_confirm", "consume_hash", "consume_move"}
           \/ Return(t)
    PROVE  LinkInv'
<1>1. PICK d : Moves(t, d) /\ Turn(call[t], d) /\ (Return(t) => d = Blank)
  <2>1. CASE Return(t)
    BY <2>1, Returns DEF Turn
  <2>2. CASE ~Return(t)
    BY <2>2, CommandTurns, FailTurns
  <2> QED
    BY <2>1, <2>2
<1>2. /\ At(d) \in Consumers => now <= links[d.link].exp
      /\ At(d) \in Works => d.link = 0
  BY <1>1, TurnsQuiet
<1>3. \A u \in Users : Born(u) /\ Settled(u) => Settled(u)'
  BY SettledStays DEF Fail, tables, Settled, Exists
<1> QED
  BY <1>1, <1>2, <1>3, LinkQuiet

LEMMA LinkHandlers ==
    ASSUME Types, Types', LinkInv, NEW t \in Threads, Handlers(t),
           UNCHANGED <<tables, redisVars, mailVars, keys, used, access, now, faults>>
    PROVE  LinkInv'
<1>1. PICK c : Begins(t, c)
  BY HandlersBegin
<1>2. /\ At(c) \in Consumers => now <= links[c.link].exp
      /\ At(c) \in Works => c.link = 0
  BY <1>1 DEF Begins, Fresh, Works, Starts, Consumers
<1>3. \A u \in Users : Settled(u) => Settled(u)'
  BY DEF tables, Settled, Exists
<1> QED
  BY <1>1, <1>2, <1>3, LinkQuiet DEF Begins, mailVars

(* consume_once(): the row is written before the thread goes on. *)
LEMMA LinkConsume ==
    ASSUME Types, Types', LinkInv, NEW t \in Threads, Consume(t), UNCHANGED <<now>>
    PROVE  LinkInv'
<1>1. PICK c, l : c = call[t] /\ l = c.link
  OBVIOUS
<1>2. CallOK(c) /\ At(c) \in {"consume_confirm", "consume_hash", "consume_move"}
  BY <1>1, AtHead DEF Consume
<1>3. UNCHANGED <<links, users>>
  BY DEF Consume, tables, mailVars
<1>4. CASE Return(t) /\ UNCHANGED used
  BY <1>3, <1>4, LinkCommand DEF Command
<1>5. CASE ~(\E r \in used : r.link = l)
  <2>1. GoOn(t) /\ used' = used \cup {[link |-> l, until |-> now + Kept[links[l].kind]]}
    BY <1>1, <1>5 DEF Consume
  <2>2. PICK d : d = Onward(c)
    OBVIOUS
  <2>3. Moves(t, d)
    BY <1>1, <2>1, <2>2, GoesOn
  <2>4. c \in Calls /\ l \in 1..Len(links) /\ links[l].kind # "invite"
    BY <1>1, <1>2 DEF CallOK, Comes
  <2>5. At(d) \in Works /\ d.link = l
    BY <1>1, <1>2, <2>2, <2>4, Route DEF Lasts, Follows, Works
  <2>6. call'[t] = d /\ \A u \in Threads : u # t => call'[u] = call[u]
    BY <2>3, Frame
  <2>7. ASSUME NEW u \in Threads PROVE At(call[u])' = IF u = t THEN At(d) ELSE At(call[u])
    BY <2>6, AtStays
  <2>8. At(d) \notin Consumers
    BY <2>5 DEF Works, Consumers
  <2>9. PICK x : x = [link |-> l, until |-> now + Kept[links[l].kind]]
    OBVIOUS
  <2>10. used' = used \cup {x} /\ x.link = l /\ x.until = now + Kept[links[l].kind]
    BY <2>1, <2>9
  <2>11. links[l].exp <= x.until
    <3>1. links[l].exp <= now + Ttl[links[l].kind]
      BY <2>4 DEF LinkInv, LinkTimes
    <3>2. links[l].kind \in LinkKinds \ {"invite"} /\ links[l].exp \in Nat /\ now \in Nat
      BY <2>4, LinkIs DEF Types, LinksOK, RestOK
    <3> QED
      BY <2>10, <3>1, <3>2, LifetimesAssumption
  <2>12. now <= links[l].exp
    BY <1>1, <1>2 DEF LinkInv, LinkTimes, Consumers
  <2>13. LinkTimes'
    <3>1. \A r \in used' : links[r.link].exp <= r.until
      BY <2>10, <2>11 DEF LinkInv, LinkTimes
    <3>2. ASSUME NEW u \in Threads, At(call[u])' \in Consumers PROVE now <= links[call'[u].link].exp
      BY <2>6, <2>7, <2>8, <3>2 DEF LinkInv, LinkTimes
    <3> QED
      BY <1>3, <3>1, <3>2 DEF LinkInv, LinkTimes
  <2>14. ~Spent(l)
    <3>1. now \in Nat /\ links[l].exp \in Nat
      BY <2>4, LinkIs DEF Types, LinksOK, RestOK
    <3> QED
      BY <1>5, <2>12, <3>1 DEF Spent
  <2>15. /\ links[l].effects = 0 /\ \A u \in Threads : ~Pends(u, l)
    <3>1. links[l].effects \in Nat
      BY <2>4, LinkIs DEF Types, LinksOK
    <3> QED
      BY <2>4, <2>14, <3>1 DEF LinkInv, OneUse
  <2>16. (\A k : Spent(k) => Spent(k)') /\ Spent(l)'
    BY <1>3, <2>10 DEF Spent
  <2>17. ASSUME NEW u \in Threads, NEW k \in 1..Len(links), Pends(u, k)'
         PROVE  (u = t /\ k = l) \/ (u # t /\ k # l /\ Pends(u, k))
    <3>1. CASE u = t
      <4>1. call'[u].link = k
        BY <2>17 DEF Pends
      <4> QED
        BY <2>5, <2>6, <3>1, <4>1
    <3>2. CASE u # t
      <4>1. Pends(u, k)
        BY <2>6, <2>7, <2>17, <3>2 DEF Pends
      <4> QED
        BY <2>15, <3>2, <4>1
    <3> QED
      BY <3>1, <3>2
  <2>18. OneUse'
    <3>1. \A k \in 1..Len(links) : links[k].kind # "invite" =>
              links[k].effects <= 1 /\ (links[k].effects > 0 => Spent(k)')
      BY <2>16 DEF LinkInv, OneUse
    <3>2. ASSUME NEW u \in Threads, NEW k \in 1..Len(links), Pends(u, k)'
          PROVE  /\ Spent(k)' /\ links[k].effects = 0
                 /\ \A v \in Threads : Pends(v, k)' => v = u
      BY <2>15, <2>16, <2>17, <3>2 DEF LinkInv, OneUse
    <3> QED
      BY <1>3, <3>1, <3>2 DEF OneUse
  <2>19. OneInvite'
    BY <1>3 DEF LinkInv, OneInvite, Settled, Exists
  <2> QED
    BY <2>13, <2>18, <2>19 DEF LinkInv
<1> QED
  BY <1>1, <1>4, <1>5 DEF Consume

(* A link takes effect: it was not pending on another thread and had none. *)
LEMMA LinkEffect ==
    ASSUME Types, Types', LinkInv, NEW t \in Threads, Command(t), GoOn(t), At(call[t]) \in Works,
           Effect(call[t].link), UNCHANGED <<used, now>>
    PROVE  LinkInv'
<1>1. PICK c, l : c = call[t] /\ l = c.link
  OBVIOUS
<1>2. CallOK(c) /\ c \in Calls /\ l \in {0} \cup 1..Len(links)
  BY <1>1, AtHead DEF CallOK, Comes, Works, Calls
<1>3. PICK d : d = Onward(c)
  OBVIOUS
<1>4. At(d) \notin Works /\ At(d) \notin Consumers /\ d.link \in Nat
  <2>1. CASE d = Blank
    <3>1. At(d) = "idle" /\ d.link = 0
      BY <2>1, BlankOK DEF Blank
    <3> QED
      BY <3>1 DEF Works, Consumers
  <2>2. CASE d # Blank
    BY <1>1, <1>2, <1>3, <2>2, Route, OnwardIs DEF Lasts, Follows, Works, Consumers, Calls
  <2> QED
    BY <2>1, <2>2
<1>5. /\ links' \in Seq(Links) /\ Len(links') = Len(links)
      /\ \A k \in 1..Len(links) :
            /\ links'[k].kind = links[k].kind /\ links'[k].user = links[k].user
            /\ links'[k].email = links[k].email /\ links'[k].exp = links[k].exp
            /\ links'[k].to = links[k].to
            /\ links'[k].effects = IF k = l THEN links[k].effects + 1 ELSE links[k].effects
  BY <1>1, <1>2, EffectIs
<1>6. call'[t] = d /\ \A u \in Threads : u # t => call'[u] = call[u]
  BY <1>1, <1>3, GoesOn, Frame
<1>7. ASSUME NEW u \in Threads PROVE At(call[u])' = IF u = t THEN At(d) ELSE At(call[u])
  BY <1>6, AtStays
<1>8. \A u \in Threads : At(call[u]) \in Consumers => call[u].link \in 1..Len(links)
  BY AtHead DEF CallOK, Comes, Consumers
<1>9. LinkTimes'
  <2>1. ASSUME NEW u \in Threads, At(call[u])' \in Consumers PROVE now <= links'[call'[u].link].exp
    <3>1. u # t /\ At(call[u]) \in Consumers /\ call'[u] = call[u]
      BY <1>4, <1>6, <1>7, <2>1
    <3> QED
      BY <1>5, <1>8, <3>1 DEF LinkInv, LinkTimes
  <2>2. \A r \in used' : links'[r.link].exp <= r.until
    BY <1>5 DEF LinkInv, LinkTimes, Types, LinksOK
  <2>3. \A k \in 1..Len(links') : links'[k].exp <= now' + Ttl[links'[k].kind]
    BY <1>5 DEF LinkInv, LinkTimes
  <2> QED
    BY <2>1, <2>2, <2>3 DEF LinkTimes
<1>10. l # 0 => l \in 1..Len(links) /\ Pends(t, l) /\ links[l].kind # "invite"
  BY <1>1, <1>2 DEF Pends, Works, CallOK, Comes
<1>11. \A k \in 1..Len(links) : Spent(k)' = Spent(k)
  BY <1>5 DEF Spent
<1>12. ASSUME NEW u \in Threads, NEW k \in 1..Len(links), Pends(u, k)' PROVE Pends(u, k) /\ k # l
  <2>1. u # t /\ Pends(u, k)
    BY <1>4, <1>6, <1>7, <1>12 DEF Pends
  <2> QED
    BY <1>10, <2>1 DEF LinkInv, OneUse
<1>13. OneUse'
  <2>1. \A k \in 1..Len(links) : links[k].kind # "invite" =>
            links'[k].effects <= 1 /\ (links'[k].effects > 0 => Spent(k))
    <3>1. ASSUME NEW k \in 1..Len(links), links[k].kind # "invite", k = l
          PROVE  links[k].effects = 0 /\ Spent(k)
      BY <1>10, <3>1 DEF LinkInv, OneUse
    <3> QED
      BY <1>5, <3>1 DEF LinkInv, OneUse
  <2>2. ASSUME NEW u \in Threads, NEW k \in 1..Len(links), Pends(u, k)'
        PROVE  /\ Spent(k) /\ links'[k].effects = 0
               /\ \A v \in Threads : Pends(v, k)' => v = u
    BY <1>5, <1>12, <2>2 DEF LinkInv, OneUse
  <2> QED
    BY <1>5, <1>11, <2>1, <2>2 DEF OneUse
<1>14. ASSUME NEW k \in 1..Len(links), Settled(links[k].user)
       PROVE  ~IsRow(users'[links[k].user]) \/ users'[links[k].user].confirmed
  <2>1. links[k].user \in Users /\ Born(links[k].user)
    BY LinkIs DEF Types, LinksOK
  <2>2. PICK u : u = links[k].user
    OBVIOUS
  <2>3. Settled(u)'
    BY <1>14, <2>1, <2>2, SettledStays
  <2> QED
    BY <2>2, <2>3 DEF Settled, Exists
<1>15. OneInvite'
  <2>1. \A k \in 1..Len(links) : links[k].kind = "invite" => links'[k].effects = links[k].effects
    BY <1>5, <1>10
  <2> QED
    BY <1>5, <1>14, <2>1 DEF LinkInv, OneInvite, Settled, Exists
<1> QED
  BY <1>9, <1>13, <1>15 DEF LinkInv

(* An invite is redeemed: its user was not settled, so no other invite was. *)
LEMMA LinkInvite ==
    ASSUME Types, Types', LinkInv, NEW t \in Threads, RedeemInvite(t), users' # users, UNCHANGED now
    PROVE  LinkInv'
<1>1. PICK c, l, u : c = call[t] /\ l = c.link /\ u = c.user
  OBVIOUS
<1>2. CallOK(c) /\ c \in Calls /\ At(c) = "redeem"
  BY <1>1, AtHead DEF RedeemInvite, Write
<1>3. l \in 1..Len(links) /\ links[l].kind = "invite" /\ links[l].user = u /\ u \in Users
  BY <1>1, <1>2 DEF CallOK, Comes
<1>4. /\ Exists(u) /\ ~users[u].confirmed /\ GoOn(t) /\ Effect(l) /\ UNCHANGED used
      /\ Update(u, [users[u] EXCEPT !.confirmed = TRUE, !.password = c.password])
  BY <1>1 DEF RedeemInvite, Write, tables
<1>5. PICK d : d = Onward(c)
  OBVIOUS
<1>6. At(d) = "list"
  BY <1>2, <1>5, Route DEF Lasts, Follows
<1>7. /\ links' \in Seq(Links) /\ Len(links') = Len(links)
      /\ \A k \in 1..Len(links) :
            /\ links'[k].kind = links[k].kind /\ links'[k].user = links[k].user
            /\ links'[k].email = links[k].email /\ links'[k].exp = links[k].exp
            /\ links'[k].to = links[k].to
            /\ links'[k].effects = IF k = l THEN links[k].effects + 1 ELSE links[k].effects
  BY <1>3, <1>4, EffectIs
<1>8. call'[t] = d /\ \A v \in Threads : v # t => call'[v] = call[v]
  BY <1>1, <1>4, <1>5, GoesOn, Frame
<1>9. ASSUME NEW v \in Threads PROVE At(call[v])' = IF v = t THEN At(d) ELSE At(call[v])
  BY <1>8, AtStays
<1>10. \A v \in Threads : At(call[v]) \in Consumers => call[v].link \in 1..Len(links)
  BY AtHead DEF CallOK, Comes, Consumers
<1>11. LinkTimes'
  <2>1. ASSUME NEW v \in Threads, At(call[v])' \in Consumers PROVE now <= links'[call'[v].link].exp
    <3>1. v # t /\ At(call[v]) \in Consumers /\ call'[v] = call[v]
      BY <1>6, <1>8, <1>9, <2>1 DEF Consumers
    <3> QED
      BY <1>7, <1>10, <3>1 DEF LinkInv, LinkTimes
  <2>2. \A r \in used' : links'[r.link].exp <= r.until
    BY <1>4, <1>7 DEF LinkInv, LinkTimes, Types, LinksOK
  <2>3. \A k \in 1..Len(links') : links'[k].exp <= now' + Ttl[links'[k].kind]
    BY <1>7 DEF LinkInv, LinkTimes
  <2> QED
    BY <2>1, <2>2, <2>3 DEF LinkTimes
<1>12. \A k \in 1..Len(links) : Spent(k)' = Spent(k)
  BY <1>4, <1>7 DEF Spent
<1>13. ASSUME NEW v \in Threads, NEW k \in 1..Len(links), Pends(v, k)' PROVE Pends(v, k) /\ k # l
  <2>1. v # t /\ Pends(v, k)
    BY <1>6, <1>8, <1>9, <1>13 DEF Pends, Works
  <2>2. CallOK(call[v])
    BY AtHead
  <2>3. links[k].kind # "invite"
    BY <2>1, <2>2 DEF Pends, Works, CallOK, Comes
  <2> QED
    BY <1>3, <2>1, <2>3
<1>14. OneUse'
  <2>1. \A k \in 1..Len(links) : links[k].kind # "invite" =>
            links'[k].effects <= 1 /\ (links'[k].effects > 0 => Spent(k))
    BY <1>3, <1>7 DEF LinkInv, OneUse
  <2>2. ASSUME NEW v \in Threads, NEW k \in 1..Len(links), Pends(v, k)'
        PROVE  /\ Spent(k) /\ links'[k].effects = 0
               /\ \A w \in Threads : Pends(w, k)' => w = v
    BY <1>7, <1>13, <2>2 DEF LinkInv, OneUse
  <2> QED
    BY <1>7, <1>12, <2>1, <2>2 DEF OneUse
<1>15. ~Settled(u) /\ users'[u].confirmed
  <2>1. users[u] \in Rows
    BY <1>3, <1>4, RowOf
  <2>2. PICK row : row = [users[u] EXCEPT !.confirmed = TRUE, !.password = c.password]
    OBVIOUS
  <2>3. row.confirmed = TRUE
    BY <2>1, <2>2 DEF Rows
  <2>4. users'[u] = row
    BY <1>3, <1>4, <2>2, Updated
  <2> QED
    BY <1>4, <2>3, <2>4 DEF Settled
<1>16. ASSUME NEW k \in 1..Len(links), Settled(links[k].user)
       PROVE  ~IsRow(users'[links[k].user]) \/ users'[links[k].user].confirmed
  <2>1. links[k].user \in Users /\ Born(links[k].user)
    BY LinkIs DEF Types, LinksOK
  <2>2. PICK v : v = links[k].user
    OBVIOUS
  <2>3. Settled(v)'
    BY <1>16, <2>1, <2>2, SettledStays DEF Command
  <2> QED
    BY <2>2, <2>3 DEF Settled, Exists
<1>17. \A k \in 1..Len(links) : links[k].kind = "invite" /\ links[k].user = u => links[k].effects = 0
  <2>1. \A k \in 1..Len(links) : links[k].effects \in Nat
    BY LinkIs DEF Types, LinksOK
  <2> QED
    BY <1>15, <2>1 DEF LinkInv, OneInvite
<1>18. OneInvite'
  <2>1. ASSUME NEW k \in 1..Len(links), links[k].kind = "invite"
        PROVE  /\ links'[k].effects <= 1
               /\ links'[k].effects > 0 =>
                     ~IsRow(users'[links[k].user]) \/ users'[links[k].user].confirmed
    <3>1. CASE k = l
      BY <1>3, <1>7, <1>15, <1>17, <3>1
    <3>2. CASE k # l
      BY <1>7, <1>16, <2>1, <3>2 DEF LinkInv, OneInvite
    <3> QED
      BY <3>1, <3>2
  <2>2. ASSUME NEW k \in 1..Len(links), NEW m \in 1..Len(links), k # m,
               links[k].kind = "invite", links[m].kind = "invite", links[k].user = links[m].user
        PROVE  links'[k].effects = 0 \/ links'[m].effects = 0
    <3>1. CASE k = l \/ m = l
      BY <1>3, <1>7, <1>17, <2>2, <3>1
    <3>2. CASE k # l /\ m # l
      BY <1>7, <2>2, <3>2 DEF LinkInv, OneInvite
    <3> QED
      BY <3>1, <3>2
  <2> QED
    BY <1>7, <2>1, <2>2 DEF OneInvite, Settled, Exists
<1> QED
  BY <1>11, <1>14, <1>18 DEF LinkInv

(* The steps of no thread. *)
LEMMA LinkIdle ==
    ASSUME Types, LinkInv, UNCHANGED <<links, now, call, users>>, used' = used \/ ReapUsed
    PROVE  LinkInv'
<1>1. \A l \in 1..Len(links) : Spent(l) => Spent(l)'
  <2>1. CASE used' = used
    BY <2>1 DEF Spent
  <2>2. CASE ReapUsed
    <3>1. ASSUME NEW l \in 1..Len(links), Spent(l) PROVE Spent(l)'
      <4>1. CASE now > links[l].exp
        BY <4>1 DEF Spent
      <4>2. CASE \E r \in used : r.link = l
        <5>1. PICK r \in used : r.link = l
          BY <4>2
        <5>2. links[l].exp <= r.until /\ r.until \in Nat /\ links[l].exp \in Nat /\ now \in Nat
          BY <5>1, LinkIs DEF LinkInv, LinkTimes, Types, LinksOK, RestOK
        <5>3. CASE r.until < now
          BY <5>2, <5>3 DEF Spent
        <5>4. CASE r.until >= now
          BY <2>2, <5>1, <5>4 DEF ReapUsed, Spent
        <5> QED
          BY <5>2, <5>3, <5>4
      <4> QED
        BY <3>1, <4>1, <4>2 DEF Spent
    <3> QED
      BY <3>1
  <2> QED
    BY <2>1, <2>2
<1>2. used' \subseteq used
  BY DEF ReapUsed
<1>3. LinkTimes'
  BY <1>2 DEF LinkInv, LinkTimes, At, Place
<1>4. \A t, l : Pends(t, l)' = Pends(t, l)
  BY DEF Pends, At, Place
<1>5. OneUse'
  BY <1>1, <1>4 DEF LinkInv, OneUse
<1>6. OneInvite'
  BY DEF LinkInv, OneInvite, Settled, Exists
<1> QED
  BY <1>3, <1>5, <1>6 DEF LinkInv

LEMMA LinkTick ==
    ASSUME Types, LinkInv, Tick PROVE LinkInv'
<1>1. \A t \in Threads : At(call[t]) \notin Consumers
  <2>1. ASSUME NEW t \in Threads PROVE At(call[t]) \notin Consumers
    <3>1. PICK s : s = call[t].todo
      OBVIOUS
    <3>2. s \in Todos /\ ~In(s, "consume")
      BY <3>1, AtHead DEF Tick, Has, In, Calls
    <3> QED
      BY <3>1, <3>2, Meaning DEF At
  <2> QED
    BY <2>1
<1>2. now \in Nat /\ now' = now + 1 /\ \A l \in 1..Len(links) : links[l].exp \in Nat /\ links[l].kind \in LinkKinds
  BY LinkIs DEF Tick, Types, RestOK, LinksOK
<1>3. UNCHANGED <<links, used, users, call>>
  BY DEF Tick, tables, mailVars
<1>4. \A l \in 1..Len(links) : Spent(l) => Spent(l)'
  BY <1>2, <1>3 DEF Spent
<1>5. LinkTimes'
  <2>1. \A l \in 1..Len(links) : links[l].exp <= now' + Ttl[links[l].kind]
    BY <1>2, LifetimesAssumption DEF LinkInv, LinkTimes
  <2>2. \A t \in Threads : At(call[t])' \notin Consumers
    BY <1>1, <1>3 DEF At, Place
  <2> QED
    BY <1>3, <2>1, <2>2 DEF LinkInv, LinkTimes
<1>6. \A t, l : Pends(t, l)' = Pends(t, l)
  BY <1>3 DEF Pends, At, Place
<1>7. OneUse'
  BY <1>3, <1>4, <1>6 DEF LinkInv, OneUse
<1>8. OneInvite'
  BY <1>3 DEF LinkInv, OneInvite, Settled, Exists
<1> QED
  BY <1>5, <1>7, <1>8 DEF LinkInv

LEMMA LinkDeliver ==
    ASSUME Types, LinkInv, NEW m \in mails, Deliver(m) PROVE LinkInv'
<1>1. PICK x, n : x = Issue(m) /\ n = Len(links) + 1
  OBVIOUS
<1>2. UNCHANGED <<used, users, call, now>>
  BY DEF Deliver, tables
<1>3. CASE links' = links
  BY <1>2, <1>3, LinkIdle
<1>4. CASE links' # links
  <2>1. /\ Exists(m.user) /\ x \in Links
        /\ x.user = m.user /\ x.kind = m.kind /\ x.effects = 0 /\ x.exp = now + Ttl[m.kind]
        /\ links' \in Seq(Links) /\ Len(links') = n /\ links'[n] = x
        /\ \A l \in 1..Len(links) : links'[l] = links[l]
    BY <1>1, <1>4, DeliverIs
  <2>2. Len(links) \in Nat
    BY DEF Types, LinksOK
  <2>3. \A l \in 1..Len(links') : l = n \/ l \in 1..Len(links)
    BY <1>1, <2>1, <2>2
  <2>4. \A t \in Threads : At(call[t]) \in Consumers => call[t].link \in 1..Len(links)
    BY AtHead DEF CallOK, Comes, Consumers
  <2>5. \A t \in Threads : At(call[t])' = At(call[t])
    BY <1>2 DEF At, Place
  <2>6. LinkTimes'
    <3>1. \A l \in 1..Len(links') : links'[l].exp <= now + Ttl[links'[l].kind]
      <4>1. links'[n].exp <= now + Ttl[links'[n].kind]
        <5>1. x.exp \in Nat
          BY <2>1 DEF Links
        <5> QED
          BY <2>1, <5>1
      <4> QED
        BY <2>1, <2>3, <4>1 DEF LinkInv, LinkTimes
    <3>2. \A r \in used : links'[r.link].exp <= r.until
      BY <2>1 DEF LinkInv, LinkTimes, Types, LinksOK
    <3>3. \A t \in Threads : At(call[t]) \in Consumers => now <= links'[call[t].link].exp
      BY <2>1, <2>4 DEF LinkInv, LinkTimes
    <3> QED
      BY <1>2, <2>5, <3>1, <3>2, <3>3 DEF LinkTimes
  <2>7. \A l \in 1..Len(links) : Spent(l) => Spent(l)'
    BY <1>2, <2>1 DEF Spent
  <2>8. ASSUME NEW t \in Threads, NEW l \in 1..Len(links'), Pends(t, l)'
        PROVE  Pends(t, l) /\ l \in 1..Len(links)
    <3>1. Pends(t, l)
      BY <1>2, <2>5, <2>8 DEF Pends
    <3>2. CallOK(call[t])
      BY AtHead
    <3>3. l # n
      BY <1>1, <2>2, <3>1, <3>2 DEF Pends, Works, CallOK, Comes
    <3> QED
      BY <2>3, <3>1, <3>3
  <2>9. OneUse'
    <3>1. \A l \in 1..Len(links') : links'[l].kind # "invite" =>
              links'[l].effects <= 1 /\ (links'[l].effects > 0 => Spent(l)')
      <4>1. ASSUME NEW l \in 1..Len(links'), links'[l].kind # "invite"
            PROVE  links'[l].effects <= 1 /\ (links'[l].effects > 0 => Spent(l)')
        <5>1. CASE l = n
          BY <2>1, <5>1
        <5>2. CASE l # n
          BY <2>1, <2>3, <2>7, <4>1, <5>2 DEF LinkInv, OneUse
        <5> QED
          BY <5>1, <5>2
      <4> QED
        BY <4>1
    <3>2. ASSUME NEW t \in Threads, NEW l \in 1..Len(links'), Pends(t, l)'
          PROVE  /\ Spent(l)' /\ links'[l].effects = 0
                 /\ \A u \in Threads : Pends(u, l)' => u = t
      BY <2>1, <2>7, <2>8, <3>2 DEF LinkInv, OneUse
    <3> QED
      BY <3>1, <3>2 DEF OneUse
  <2>10. OneInvite'
    <3>1. ASSUME NEW l \in 1..Len(links'), links'[l].kind = "invite"
          PROVE  links'[l].effects <= 1 /\ (links'[l].effects > 0 => Settled(links'[l].user))
      <4>1. CASE l = n
        BY <2>1, <4>1
      <4>2. CASE l # n
        BY <2>1, <2>3, <3>1, <4>2 DEF LinkInv, OneInvite
      <4> QED
        BY <4>1, <4>2
    <3>2. ASSUME NEW l \in 1..Len(links'), NEW k \in 1..Len(links'), l # k,
                 links'[l].kind = "invite", links'[k].kind = "invite", links'[l].user = links'[k].user
          PROVE  links'[l].effects = 0 \/ links'[k].effects = 0
      <4>1. CASE l = n \/ k = n
        BY <2>1, <4>1
      <4>2. CASE l # n /\ k # n
        BY <2>1, <2>3, <3>2, <4>2 DEF LinkInv, OneInvite
      <4> QED
        BY <4>1, <4>2
    <3> QED
      BY <1>2, <3>1, <3>2 DEF OneInvite, Settled, Exists
  <2> QED
    BY <2>6, <2>9, <2>10 DEF LinkInv
<1> QED
  BY <1>3, <1>4

LEMMA LinkInit == Init => LinkInv
<1> SUFFICES ASSUME Init PROVE LinkInv
  OBVIOUS
<1>1. Len(links) = 0 /\ used = {} /\ \A t \in Threads : call[t] = Blank
  BY DEF Init
<1>2. \A t \in Threads : At(call[t]) = "idle"
  BY <1>1, BlankOK
<1>3. \A l : l \notin 1..Len(links)
  BY <1>1
<1> QED
  BY <1>1, <1>2, <1>3 DEF LinkInv, LinkTimes, OneUse, OneInvite, Consumers

LEMMA LinkCommands ==
    ASSUME Types, Types', LinkInv, NEW t \in Threads, Command(t), UNCHANGED now PROVE LinkInv'
<1>1. CASE Consume(t)
  BY <1>1, LinkConsume
<1>2. CASE MarkConfirmed(t) \/ UpdatePasswordHash(t) \/ ChangeEmail(t)
  <2>1. At(call[t]) \in Works /\ UNCHANGED used
    BY <1>2, AtHead DEF MarkConfirmed, UpdatePasswordHash, ChangeEmail, Write, Works
  <2>2. CASE GoOn(t) /\ Effect(call[t].link)
    BY <2>1, <2>2, LinkEffect
  <2>3. CASE Return(t) /\ UNCHANGED links
    BY <2>1, <2>3, LinkCommand
  <2> QED
    BY <1>2, <2>2, <2>3 DEF MarkConfirmed, UpdatePasswordHash, ChangeEmail, Write
<1>3. CASE RedeemInvite(t)
  <2>1. CASE users' # users
    BY <1>3, <2>1, LinkInvite
  <2>2. CASE users' = users
    <3>1. PICK u, row : u = call[t].user /\ row = [users[u] EXCEPT !.confirmed = TRUE, !.password = call[t].password]
      OBVIOUS
    <3>2. CASE Return(t) /\ UNCHANGED <<tables, links>> /\ UNCHANGED used
      BY <3>2, LinkCommand
    <3>3. CASE Exists(u) /\ ~users[u].confirmed /\ Update(u, row)
      <4>1. u \in Users /\ users[u] \in Rows
        <5>1. u \in Users
          BY <1>3, <3>1, AtHead DEF RedeemInvite, Write, CallOK
        <5> QED
          BY <3>3, <5>1, RowOf
      <4>2. row.confirmed = TRUE
        BY <3>1, <4>1 DEF Rows
      <4>3. users'[u] = row
        BY <3>3, <4>1, Updated
      <4> QED
        BY <2>2, <3>3, <4>2, <4>3
    <3> QED
      BY <1>3, <3>1, <3>2, <3>3 DEF RedeemInvite, Write
  <2> QED
    BY <2>1, <2>2
<1>4. CASE ~Consume(t) /\ ~MarkConfirmed(t) /\ ~UpdatePasswordHash(t) /\ ~ChangeEmail(t) /\ ~RedeemInvite(t)
  <2>1. /\ UNCHANGED <<links, used>>
        /\ Head1(t) \in {"authenticate", "check", "load", "recall", "drop", "unindex", "mark", "index", "list",
                         "sweep", "keys", "free", "create", "patch", "remove", "remove_role"}
    BY <1>4 DEF Command, Authenticate, Check, Load, Recall, DropJti, Unindex, Mark, Index, List, Sweep,
                RevokeKeys, LookFree, Create, Patch, Remove, RemoveRole, mailVars
  <2>2. Head1(t) # "consume"
    BY <2>1
  <2>3. At(call[t]) \notin {"consume_confirm", "consume_hash", "consume_move"}
    BY <2>2, AtHead
  <2> QED
    BY <2>1, <2>3, LinkCommand
<1> QED
  BY <1>1, <1>2, <1>3, <1>4

LEMMA LinkNext == Types /\ Types' /\ LinkInv /\ [Next]_vars => LinkInv'
<1> SUFFICES ASSUME Types, Types', LinkInv, [Next]_vars PROVE LinkInv'
  OBVIOUS
<1>1. CASE UNCHANGED vars
  BY <1>1, LinkIdle DEF vars, tables, mailVars
<1>2. ASSUME NEW t \in Threads, Handlers(t),
             UNCHANGED <<tables, redisVars, mailVars, keys, used, access, now, faults>>
      PROVE  LinkInv'
  BY <1>2, LinkHandlers
<1>3. ASSUME NEW t \in Threads, Command(t), UNCHANGED <<now, calls, faults>> PROVE LinkInv'
  BY <1>3, LinkCommands
<1>4. ASSUME NEW t \in Threads, Fail(t) PROVE LinkInv'
  <2>1. UNCHANGED <<links, used, now>>
    BY <1>4 DEF Fail, mailVars
  <2>2. At(call[t]) \in {"consume_confirm", "consume_hash", "consume_move"} => Return(t)
    <3>1. CASE Head1(t) = "consume"
      BY <1>4, <3>1 DEF Fail, Skipped
    <3>2. CASE Head1(t) # "consume"
      BY <3>2, AtHead
    <3> QED
      BY <3>1, <3>2
  <2> QED
    BY <1>4, <2>1, <2>2, LinkCommand
<1>5. CASE QuickHandlers /\ UNCHANGED <<now, faults>>
  <2>1. UNCHANGED <<links, call, users, used>>
    BY <1>5 DEF QuickHandlers, RequestReset, ResendConfirm, CreateKey, RevokeKey, RequestChangeEmail, PutRole,
                Ask, Quick, WriteRoles, tables, mailVars
  <2> QED
    BY <1>5, <2>1, LinkIdle
<1>6. ASSUME NEW m \in mails, Deliver(m) PROVE LinkInv'
  BY <1>6, LinkDeliver
<1>7. CASE ReapUsed \/ CatchUp \/ \E a \in access : AccessExpires(a)
  <2>1. UNCHANGED <<links, now, call, users>> /\ (used' = used \/ ReapUsed)
    BY <1>7 DEF ReapUsed, CatchUp, AccessExpires, tables, mailVars
  <2> QED
    BY <2>1, LinkIdle
<1>8. CASE Tick
  BY <1>8, LinkTick
<1> QED
  BY <1>1, <1>2, <1>3, <1>4, <1>5, <1>6, <1>7, <1>8 DEF Next, Step

(* A link takes effect once, whatever the other handlers do: consume_once()  *)
(* lets one handler past, and used_tokens remembers it while it is valid; of *)
(* the invites of one user, one is redeemed.                                 *)
THEOREM LinksWorkOnce == Spec => []LinkWorksOnce
<1>1. Types /\ LinkInv => LinkWorksOnce
  <2> SUFFICES ASSUME Types, LinkInv PROVE LinkWorksOnce
    OBVIOUS
  <2>1. \A l \in 1..Len(links) : links[l].effects \in Nat
    BY LinkIs DEF Types, LinksOK
  <2>2. \A l \in 1..Len(links) : links[l].effects <= 1
    BY DEF LinkInv, OneUse, OneInvite
  <2>3. ASSUME NEW l \in 1..Len(links), NEW m \in 1..(l - 1),
               links[l].kind = "invite", links[m].kind = "invite", links[l].user = links[m].user
        PROVE  links[l].effects + links[m].effects <= 1
    <3>1. m \in 1..Len(links) /\ m # l
      BY <2>3 DEF Types, LinksOK
    <3>2. links[l].effects = 0 \/ links[m].effects = 0
      BY <2>3, <3>1 DEF LinkInv, OneInvite
    <3> QED
      BY <2>1, <2>2, <3>1, <3>2
  <2> QED
    BY <2>2, <2>3 DEF LinkWorksOnce
<1> QED
  BY <1>1, TypesInit, TypesNext, LinkInit, LinkNext, PTL DEF Spec

-----------------------------------------------------------------------------
(* RotatesOnce.  A session that is refreshed has one heir, a handler that    *)
(* passed is_live() while the marker was there, and then one descendant: a   *)
(* second handler that passes is_live() before the marker is dropped overlaps *)
(* with the first, and no other can.                                          *)
HeirPlaces == {"load", "recall", "drop", "unindex", "mark"}
Heir(t, j) == call[t].jti = j /\ At(call[t]) \in HeirPlaces
Races(t, j) == call[t].jti = j /\ At(call[t]) \in Rotators
RotatedOnce(j) ==
    /\ \A t, u \in Threads : Heir(t, j) /\ Heir(u, j) => t = u
    /\ \A k, m \in 1..Len(sessions) : sessions[k].from = j /\ sessions[m].from = j => k = m
    /\ \A k \in 1..Len(sessions) : sessions[k].from = j => j \notin live /\ \A t \in Threads : ~Heir(t, j)
    /\ \A t \in Threads : Heir(t, j) /\ j \in live => At(call[t]) \in Rotators
Unraced(x) == faults = 0 /\ x \notin raced
RotateInv == \A j \in 1..Len(sessions) : Unraced(<<"token", j>>) => RotatedOnce(j)

(* What the history says of the present. *)
Noticed == Overlaps \subseteq raced
LEMMA NoticedInit == Init => Noticed
<1> SUFFICES ASSUME Init PROVE Noticed
  OBVIOUS
<1>1. ASSUME NEW t \in Threads PROVE Head1(t) = "" /\ ~Has(t, "index") /\ call[t].jti = 0
  <2>1. call[t] = Blank
    BY <1>1 DEF Init
  <2>2. Blank.todo = <<>> /\ Blank.jti = 0
    BY DEF Blank
  <2>3. call[t].todo = <<>> /\ call[t].jti = 0
    BY <2>1, <2>2
  <2> QED
    BY <2>3 DEF Head1, Has
<1>2. \A u \in Users : ~Minting(u)
  BY <1>1 DEF Minting
<1>3. Len(sessions) = 0
  BY DEF Init
<1> QED
  BY <1>2, <1>3 DEF Noticed, Overlaps

LEMMA NoticedNext == Noticed /\ [Next]_vars => Noticed'
<1> SUFFICES ASSUME Noticed, [Next]_vars PROVE Noticed'
  OBVIOUS
<1>1. CASE Next
  BY <1>1 DEF Next, Noticed
<1>2. CASE UNCHANGED vars
  <2>1. UNCHANGED <<users, replica, sessions, call, raced>>
    BY <1>2 DEF vars, tables, redisVars, history
  <2>2. \A t, x : Head1(t)' = Head1(t) /\ Has(t, x)' = Has(t, x)
    BY <2>1 DEF Head1, Has
  <2>3. \A u : Minting(u)' = Minting(u) /\ Changing(u)' = Changing(u) /\ Rotating(u)' = Rotating(u)
    BY <2>1, <2>2 DEF Minting, Changing, Rotating
  <2>4. Overlaps' = Overlaps
    BY <2>1, <2>3 DEF Overlaps
  <2> QED
    BY <2>1, <2>4 DEF Noticed
<1> QED
  BY <1>1, <1>2

Clashes ==
    /\ \A j \in 1..Len(sessions), t, u \in Threads :
          Races(t, j) /\ Races(u, j) /\ t # u => <<"token", j>> \in Overlaps
    /\ \A u \in Users, t \in Threads :
          call[t].user = u /\ At(call[t]) \in Minters
          => \/ <<"user", u>> \in Overlaps
             \/ /\ replica.users[u] = users[u]
                /\ \A s \in Threads : ~(call[s].user = u /\ At(call[s]) \in Changers)

LEMMA ClashesShow == Types => Clashes
<1> SUFFICES ASSUME Types PROVE Clashes
  OBVIOUS
<1>1. ASSUME NEW t \in Threads
      PROVE  /\ Has(t, "index") /\ Head1(t) \notin {"authenticate", "check"} <=> At(call[t]) \in Minters
             /\ Has(t, "drop") /\ Head1(t) # "check" <=> At(call[t]) \in Rotators
             /\ Has(t, "hash") \/ Has(t, "keys") <=> At(call[t]) \in Changers
  <2>1. PICK s : s = call[t].todo
    OBVIOUS
  <2>2. s \in Todos
    BY <2>1, AtHead DEF Calls
  <2>3. /\ Head1(t) = First(s) /\ At(call[t]) = Place(s)
        /\ Has(t, "index") = In(s, "index") /\ Has(t, "drop") = In(s, "drop")
        /\ Has(t, "hash") = In(s, "hash") /\ Has(t, "keys") = In(s, "keys")
    BY <2>1 DEF Head1, First, At, Has, In
  <2> QED
    BY <2>2, <2>3, Meaning
<1>2. ASSUME NEW j \in 1..Len(sessions), NEW t \in Threads, NEW u \in Threads, Races(t, j), Races(u, j), t # u
      PROVE  <<"token", j>> \in Overlaps
  <2>1. t \in Rotating(j) /\ u \in Rotating(j)
    BY <1>1, <1>2 DEF Rotating, Races
  <2>2. Rotating(j) \subseteq Threads /\ IsFiniteSet(Rotating(j))
    BY ThreadsAssumption, FS_Subset DEF Rotating
  <2>3. Cardinality({t} \cup {u}) = 2
    <3>1. IsFiniteSet({t}) /\ Cardinality({t}) = 1
      BY FS_Singleton
    <3>2. Cardinality({t} \cup {u}) = Cardinality({t}) + 1
      BY <1>2, <3>1, FS_AddElement
    <3>3. Cardinality({t}) + 1 = 2
      BY <3>1
    <3> QED
      BY <3>2, <3>3
  <2>4. Cardinality({t} \cup {u}) <= Cardinality(Rotating(j))
    BY <2>1, <2>2, FS_Subset
  <2>5. Cardinality(Rotating(j)) \in Nat
    BY <2>2, FS_CardinalityType
  <2>6. Cardinality(Rotating(j)) > 1
    <3>1. PICK n, m : n = Cardinality({t} \cup {u}) /\ m = Cardinality(Rotating(j))
      OBVIOUS
    <3>2. n = 2 /\ n <= m /\ m \in Nat
      BY <2>3, <2>4, <2>5, <3>1, Zenon
    <3> QED
      BY <3>1, <3>2
  <2> QED
    BY <2>6 DEF Overlaps
<1>3. ASSUME NEW u \in Users, NEW t \in Threads, call[t].user = u, At(call[t]) \in Minters,
             \/ replica.users[u] # users[u]
             \/ \E s \in Threads : call[s].user = u /\ At(call[s]) \in Changers
      PROVE  <<"user", u>> \in Overlaps
  <2>1. Minting(u)
    BY <1>1, <1>3 DEF Minting
  <2>2. Changing(u) \/ replica.users[u] # users[u]
    BY <1>1, <1>3 DEF Changing
  <2> QED
    BY <2>1, <2>2 DEF Overlaps
<1> QED
  BY <1>2, <1>3 DEF Clashes

LEMMA RotateMove ==
    ASSUME Types, NEW t \in Threads, NEW d, Moves(t, d), sessions' = sessions, live' \subseteq live,
           NEW j, RotatedOnce(j), \A u \in Threads : Races(t, j)' /\ Races(u, j)' => t = u,
           At(d) \in HeirPlaces /\ d.jti = j =>
               /\ call[t].jti = j
               /\ \/ At(call[t]) = "check" /\ At(d) = "load" /\ j \in live
                  \/ At(call[t]) \in HeirPlaces /\ (At(d) \in Rotators \/ j \notin live')
    PROVE  RotatedOnce(j)'
<1>1. call'[t] = d /\ \A u \in Threads : u # t => call'[u] = call[u]
  BY Frame
<1>2. ASSUME NEW u \in Threads PROVE At(call[u])' = IF u = t THEN At(d) ELSE At(call[u])
  BY <1>1, AtStays
<1>3. ASSUME NEW u \in Threads, u # t
      PROVE  (Heir(u, j)' <=> Heir(u, j)) /\ (Races(u, j)' <=> Races(u, j))
  BY <1>1, <1>2, <1>3 DEF Heir, Races
<1>4. Heir(t, j)' <=> d.jti = j /\ At(d) \in HeirPlaces
  BY <1>1, <1>2 DEF Heir
<1>5. CASE ~Heir(t, j)'
  BY <1>2, <1>3, <1>5 DEF RotatedOnce
<1>6. CASE Heir(t, j)' /\ Heir(t, j)
  <2>1. At(d) \in Rotators \/ j \notin live'
    BY <1>4, <1>6 DEF Rotators
  <2> QED
    BY <1>2, <1>3, <1>6, <2>1 DEF RotatedOnce
<1>7. CASE Heir(t, j)' /\ ~Heir(t, j)
  <2>1. At(d) = "load" /\ j \in live
    BY <1>4, <1>7 DEF Heir
  <2>2. Races(t, j)'
    BY <1>1, <1>2, <1>4, <1>7, <2>1 DEF Races, Rotators
  <2>3. ASSUME NEW u \in Threads, u # t PROVE ~Heir(u, j)'
    BY <1>3, <2>1, <2>2, <2>3 DEF RotatedOnce, Races, Heir
  <2>4. \A k \in 1..Len(sessions) : sessions[k].from # j
    BY <2>1 DEF RotatedOnce
  <2>5. At(call[t])' \in Rotators
    BY <2>2 DEF Races
  <2> QED
    BY <2>3, <2>4, <2>5 DEF RotatedOnce
<1> QED
  BY <1>5, <1>6, <1>7

LEMMA RotateCommand ==
    ASSUME Types, NEW t \in Threads, Command(t), ~Mark(t), NEW j \in 1..Len(sessions), RotatedOnce(j),
           \A u \in Threads : Races(t, j)' /\ Races(u, j)' => t = u
    PROVE  RotatedOnce(j)'
<1>1. PICK c : c = call[t]
  OBVIOUS
<1>2. c \in Calls /\ CallOK(c)
  BY <1>1, AtHead
<1>3. PICK d : Moves(t, d) /\ Turn(c, d)
  BY <1>1, CommandTurns
<1>4. call'[t] = d
  BY <1>3, Frame
<1>5. sessions' = sessions /\ live' \subseteq live
  BY DEF Command, Authenticate, Check, Load, Recall, DropJti, Unindex, Index, List, Sweep, RevokeKeys,
         Consume, MarkConfirmed, UpdatePasswordHash, ChangeEmail, RedeemInvite, Write, LookFree, Create,
         Patch, Remove, RemoveRole, redisVars
<1>6. At(c) # "mark"
  <2>1. CASE Head1(t) = "mark"
    BY <2>1 DEF Command, Authenticate, Check, Load, Recall, DropJti, Unindex, Index, List, Sweep, RevokeKeys,
            Consume, MarkConfirmed, UpdatePasswordHash, ChangeEmail, RedeemInvite, Write, LookFree, Create,
            Patch, Remove, RemoveRole
  <2> QED
    BY <1>1, <2>1, AtHead
<1>7. At(c) = "check" /\ d # Blank => c.jti \in live
  <2>1. ASSUME Head1(t) = "check", d # Blank PROVE c.jti \in live
    <3>1. Check(t)
      BY <2>1 DEF Command, Authenticate, Load, Recall, DropJti, Unindex, Index, List, Sweep, RevokeKeys,
              Consume, MarkConfirmed, UpdatePasswordHash, ChangeEmail, RedeemInvite, Write, LookFree, Create,
              Patch, Remove, RemoveRole
    <3>2. ~Return(t)
      <4>1. Return(t) => call'[t] = Blank
        BY Returns, Frame
      <4> QED
        BY <1>4, <2>1, <4>1
    <3> QED
      BY <1>1, <3>1, <3>2 DEF Check
  <2> QED
    BY <1>1, <2>1, AtHead
<1>8. At(c) = "drop" => c.jti \notin live'
  <2>1. ASSUME Head1(t) = "drop" PROVE c.jti \notin live'
    <3>1. DropJti(t)
      BY <2>1 DEF Command, Authenticate, Check, Load, Recall, Unindex, Index, List, Sweep, RevokeKeys,
              Consume, MarkConfirmed, UpdatePasswordHash, ChangeEmail, RedeemInvite, Write, LookFree, Create,
              Patch, Remove, RemoveRole
    <3> QED
      BY <1>1, <3>1 DEF DropJti
  <2> QED
    BY <1>1, <2>1, AtHead
<1>9. ASSUME At(d) \in HeirPlaces, d.jti = j
      PROVE  /\ c.jti = j
             /\ \/ At(c) = "check" /\ At(d) = "load" /\ j \in live
                \/ At(c) \in HeirPlaces /\ (At(d) \in Rotators \/ j \notin live')
  <2>1. d # Blank
    BY <1>9, BlankOK DEF HeirPlaces
  <2>2. c.jti = j /\ Follows(At(c), At(d))
    BY <1>3, <1>6, <1>9, <2>1 DEF Turn, HeirPlaces
  <2>3. At(c) # "authenticate"
    BY <1>2, <2>2 DEF CallOK
  <2>4. At(c) = "unindex" => j \notin live
    BY <1>1, <2>2 DEF RotatedOnce, Heir, HeirPlaces, Rotators
  <2>5. \/ At(c) = "check" /\ At(d) = "load"
        \/ At(c) = "load" /\ At(d) = "recall"
        \/ At(c) = "recall" /\ At(d) = "drop"
        \/ At(c) = "drop" /\ At(d) = "unindex"
        \/ At(c) = "unindex" /\ At(d) = "mark"
    BY <1>9, <2>2, <2>3 DEF Follows, HeirPlaces
  <2> QED
    BY <1>5, <1>7, <1>8, <2>1, <2>2, <2>4, <2>5 DEF HeirPlaces, Rotators
<1> QED
  BY <1>1, <1>3, <1>5, <1>9, RotateMove

(* mint_session(): what began with token j ends in one session. *)
LEMMA RotateMark ==
    ASSUME Types, NEW t \in Threads, Mark(t), NEW j \in 1..Len(sessions'),
           j \in 1..Len(sessions) => RotatedOnce(j)
    PROVE  RotatedOnce(j)'
<1>1. PICK c, n : c = call[t] /\ n = Len(sessions) + 1
  OBVIOUS
<1>2. /\ CallOK(c) /\ At(c) = "mark" /\ n \in Nat /\ Len(sessions') = n
      /\ \A i \in 1..Len(sessions) : sessions'[i] = sessions[i]
      /\ sessions'[n].from = c.jti /\ c.jti \in Nat /\ c.jti < n
  BY <1>1, MarkIs
<1>3. PICK d : d = Onward([c EXCEPT !.jti = n])
  OBVIOUS
<1>4. At(d) = "index"
  BY <1>2, <1>3, Marked DEF CallOK
<1>5. Moves(t, d)
  BY <1>1, <1>3, Proceeds DEF Mark
<1>6. call'[t] = d /\ \A u \in Threads : u # t => call'[u] = call[u]
  BY <1>5, Frame
<1>7. ASSUME NEW u \in Threads PROVE At(call[u])' = IF u = t THEN At(d) ELSE At(call[u])
  BY <1>6, AtStays
<1>8. ASSUME NEW u \in Threads, Heir(u, j)' PROVE u # t /\ Heir(u, j)
  BY <1>4, <1>6, <1>7, <1>8 DEF Heir, HeirPlaces
<1>9. \A i \in 1..n : i = n \/ i \in 1..Len(sessions)
  BY <1>1, <1>2
<1>10. CASE j = n
  <2>1. ASSUME NEW i \in 1..n PROVE sessions'[i].from # n
    <3>1. CASE i = n
      BY <1>2, <3>1
    <3>2. CASE i \in 1..Len(sessions)
      <4>1. sessions'[i].from < i
        BY <1>2, <3>2 DEF Types, SessionsOK
      <4>2. sessions'[i].from \in Nat
        BY <1>2, <3>2, SessionIs DEF Types, SessionsOK
      <4> QED
        BY <2>1, <4>1, <4>2
    <3> QED
      BY <1>9, <3>1, <3>2
  <2>2. ASSUME NEW u \in Threads PROVE ~Heir(u, n)
    <3>1. PICK x : x = call[u]
      OBVIOUS
    <3>2. CallOK(x) /\ x \in Calls
      BY <3>1, AtHead
    <3>3. At(x) \in HeirPlaces => x.jti = 0 \/ x.jti \in 1..Len(sessions)
      BY <3>2 DEF CallOK, HeirPlaces, Refreshing, Rotates
    <3>4. Len(sessions) \in Nat
      BY DEF Types, SessionsOK
    <3> QED
      BY <1>1, <3>1, <3>3, <3>4 DEF Heir
  <2>3. \A u \in Threads : ~Heir(u, j)'
    BY <1>8, <1>10, <2>2
  <2> QED
    BY <1>2, <1>10, <2>1, <2>3 DEF RotatedOnce
<1>11. CASE j # n
  <2>1. j \in 1..Len(sessions) /\ RotatedOnce(j)
    BY <1>2, <1>9, <1>11
  <2>2. live' = live \cup {n}
    BY <1>1 DEF Mark
  <2>3. j \in live' => j \in live
    BY <1>11, <2>2
  <2>4. CASE c.jti = j
    <3>1. Heir(t, j)
      BY <1>1, <1>2, <2>4 DEF Heir, HeirPlaces
    <3>2. \A u \in Threads : ~Heir(u, j)'
      BY <1>8, <2>1, <3>1 DEF RotatedOnce
    <3>3. j \notin live'
      BY <1>1, <1>2, <2>1, <2>3, <3>1 DEF RotatedOnce, Rotators
    <3>4. \A i \in 1..n : sessions'[i].from = j => i = n
      BY <1>2, <1>9, <2>1, <3>1 DEF RotatedOnce
    <3> QED
      BY <1>2, <3>2, <3>3, <3>4 DEF RotatedOnce
  <2>5. CASE c.jti # j
    <3>1. \A i \in 1..n : sessions'[i].from = j => i \in 1..Len(sessions) /\ sessions[i].from = j
      BY <1>2, <1>9, <2>5
    <3>2. ASSUME NEW u \in Threads, Heir(u, j)', j \in live' PROVE At(call[u])' \in Rotators
      BY <1>7, <1>8, <2>1, <2>3, <3>2 DEF RotatedOnce
    <3> QED
      BY <1>2, <1>8, <2>1, <2>3, <3>1, <3>2 DEF RotatedOnce
  <2> QED
    BY <2>4, <2>5
<1> QED
  BY <1>10, <1>11

LEMMA RotateHandlers ==
    ASSUME Types, NEW t \in Threads, Handlers(t), UNCHANGED redisVars,
           NEW j \in 1..Len(sessions), RotatedOnce(j)
    PROVE  RotatedOnce(j)'
<1>1. PICK c : Begins(t, c)
  BY HandlersBegin
<1>2. At(c) \notin HeirPlaces /\ Moves(t, c)
  BY <1>1 DEF Begins, Fresh, Starts, HeirPlaces
<1>3. call'[t] = c /\ \A u \in Threads : u # t => call'[u] = call[u]
  BY <1>2, Frame
<1>4. ASSUME NEW u \in Threads, Heir(u, j)' PROVE u # t /\ Heir(u, j) /\ At(call[u])' = At(call[u])
  <2>1. At(call[u])' = IF u = t THEN At(c) ELSE At(call[u])
    BY <1>3, AtStays
  <2> QED
    BY <1>2, <1>3, <1>4, <2>1 DEF Heir
<1>5. sessions' = sessions /\ live' = live
  BY DEF redisVars
<1>6. ASSUME NEW u \in Threads, Heir(u, j)', j \in live' PROVE At(call[u])' \in Rotators
  BY <1>4, <1>5, <1>6 DEF RotatedOnce
<1> QED
  BY <1>4, <1>5, <1>6 DEF RotatedOnce

LEMMA RotateIdle ==
    ASSUME UNCHANGED <<call, sessions, live>>, NEW j, RotatedOnce(j) PROVE RotatedOnce(j)'
<1>1. \A t : Heir(t, j)' = Heir(t, j) /\ At(call[t])' = At(call[t])
  BY DEF Heir, At, Place
<1> QED
  BY <1>1 DEF RotatedOnce

LEMMA RotateNext == Types /\ Types' /\ Clashes' /\ Noticed' /\ RotateInv /\ [Next]_vars => RotateInv'
<1> SUFFICES ASSUME Types, Types', Clashes', Noticed', RotateInv, [Next]_vars,
                    NEW j \in 1..Len(sessions'), Unraced(<<"token", j>>)'
             PROVE  RotatedOnce(j)'
  BY DEF RotateInv
<1>1. CASE UNCHANGED vars
  <2>1. UNCHANGED <<sessions, live, call, faults, raced>>
    BY <1>1 DEF vars, redisVars, history
  <2>2. RotatedOnce(j)
    BY <2>1 DEF RotateInv, Unraced
  <2> QED
    BY <2>1, <2>2, RotateIdle
<1>2. CASE Next
  <2>1. raced \subseteq raced' /\ faults' = 0
    BY <1>2 DEF Next, Unraced
  <2>2. <<"token", j>> \notin raced /\ faults \in Nat
    BY <2>1 DEF Unraced, Types, RestOK
  <2>3. faults = 0 /\ j \in 1..Len(sessions) => RotatedOnce(j)
    BY <2>2 DEF RotateInv, Unraced
  <2>4. ASSUME NEW t \in Threads, NEW u \in Threads, Races(t, j)', Races(u, j)' PROVE t = u
    BY <2>4 DEF Clashes, Noticed, Unraced
  <2>5. ASSUME NEW t \in Threads, Handlers(t),
               UNCHANGED <<tables, redisVars, mailVars, keys, used, access, now, faults>>
        PROVE  RotatedOnce(j)'
    <3>1. j \in 1..Len(sessions) /\ faults = 0
      BY <2>1, <2>5 DEF redisVars
    <3> QED
      BY <2>3, <2>5, <3>1, RotateHandlers
  <2>6. ASSUME NEW t \in Threads, Command(t), UNCHANGED <<now, calls, faults>> PROVE RotatedOnce(j)'
    <3>1. faults = 0
      BY <2>1, <2>6
    <3>2. CASE Mark(t)
      BY <2>3, <3>1, <3>2, RotateMark
    <3>3. CASE ~Mark(t)
      <4>1. sessions' = sessions
        BY <2>6, <3>3 DEF Command, Authenticate, Check, Load, Recall, DropJti, Unindex, Index, List, Sweep,
               RevokeKeys, Consume, MarkConfirmed, UpdatePasswordHash, ChangeEmail, RedeemInvite, Write,
               LookFree, Create, Patch, Remove, RemoveRole, redisVars
      <4>2. j \in 1..Len(sessions)
        BY <4>1
      <4> QED
        BY <2>3, <2>4, <2>6, <3>1, <3>3, <4>2, RotateCommand
    <3> QED
      BY <3>2, <3>3
  <2>7. ASSUME NEW t \in Threads, Fail(t) PROVE FALSE
    <3>1. faults' = faults + 1
      BY <2>7 DEF Fail
    <3> QED
      BY <2>1, <2>2, <3>1
  <2>8. ASSUME UNCHANGED <<call, sessions, live, faults>> PROVE RotatedOnce(j)'
    <3>1. j \in 1..Len(sessions) /\ faults = 0
      BY <2>1, <2>8
    <3> QED
      BY <2>3, <2>8, <3>1, RotateIdle
  <2>9. CASE QuickHandlers /\ UNCHANGED <<now, faults>>
    <3>1. UNCHANGED <<call, sessions, live>>
      BY <2>9 DEF QuickHandlers, RequestReset, ResendConfirm, CreateKey, RevokeKey, RequestChangeEmail, PutRole,
                  Ask, Quick, redisVars
    <3> QED
      BY <2>8, <2>9, <3>1
  <2>10. CASE \/ ReapUsed \/ CatchUp \/ Tick \/ \E a \in access : AccessExpires(a)
              \/ \E m \in mails : Deliver(m)
    BY <2>8, <2>10 DEF ReapUsed, CatchUp, Tick, AccessExpires, Deliver, redisVars
  <2> QED
    BY <1>2, <2>5, <2>6, <2>7, <2>9, <2>10 DEF Next, Step
<1> QED
  BY <1>1, <1>2

LEMMA RotateInit == Init => RotateInv
  BY DEF Init, RotateInv

LEMMA AtMostOne == ASSUME NEW S, \A k, m \in S : k = m PROVE Cardinality(S) <= 1
<1>1. PICK n : n = Cardinality(S)
  OBVIOUS
<1>2. CASE S = {}
  <2>1. n = 0
    BY <1>1, <1>2, FS_EmptySet, Zenon
  <2> QED
    BY <1>1, <2>1
<1>3. CASE S # {}
  <2>1. PICK k : k \in S
    BY <1>3
  <2>2. S = {k}
    BY <2>1
  <2>3. n = 1
    BY <1>1, <2>2, FS_Singleton, Zenon
  <2> QED
    BY <1>1, <2>3
<1> QED
  BY <1>2, <1>3

(* refresh(): a token is rotated into one new session, unless two calls were *)
(* past is_live() with it at once or a command failed.                       *)
THEOREM TokensRotateOnce == Spec => []RotatesOnce
<1>1. Types /\ RotateInv => RotatesOnce
  <2> SUFFICES ASSUME Types, RotateInv PROVE RotatesOnce
    OBVIOUS
  <2>1. ASSUME NEW j \in 1..Len(sessions), faults = 0, <<"token", j>> \notin raced
        PROVE  Cardinality({k \in 1..Len(sessions) : sessions[k].from = j}) <= 1
    <3>1. RotatedOnce(j)
      BY <2>1 DEF RotateInv, Unraced
    <3>2. \A k, m \in {i \in 1..Len(sessions) : sessions[i].from = j} : k = m
      BY <3>1 DEF RotatedOnce
    <3> QED
      BY <3>2, AtMostOne, Zenon
  <2>2. faults > 0 \/ faults = 0
    BY DEF Types, RestOK
  <2> QED
    BY <2>1, <2>2, Zenon DEF RotatesOnce
<1> QED
  BY <1>1, TypesInit, TypesNext, ClashesShow, NoticedInit, NoticedNext, RotateInit, RotateNext, PTL DEF Spec

-----------------------------------------------------------------------------
(* ConfirmedIsProven.  A link that does not change the address was sent to   *)
(* the address the user had then; when the address moves, the new one was    *)
(* reached by the link that moved it.                                         *)
Reached(u) == \E l \in 1..Len(links) : /\ links[l].user = u /\ links[l].to = users[u].email
                                       /\ links[l].effects > 0
Proven(u) ==
    /\ users[u].confirmed => Reached(u)
    /\ \A l \in 1..Len(links) : links[l].user = u /\ links[l].kind # "email" =>
          links[l].to = users[u].email \/ Reached(u)
ConfInv ==
    /\ \A l \in 1..Len(links) : links[l].kind = "email" => links[l].to = links[l].email
    /\ \A u \in Users : Exists(u) /\ u \notin vouched => Proven(u)

LinksKeep ==
    /\ Len(links') = Len(links)
    /\ \A k \in 1..Len(links) :
          /\ links'[k].kind = links[k].kind /\ links'[k].user = links[k].user
          /\ links'[k].email = links[k].email /\ links'[k].to = links[k].to
          /\ links[k].effects > 0 => links'[k].effects > 0

LEMMA EffectKeeps ==
    ASSUME Types, NEW l \in {0} \cup 1..Len(links), Effect(l)
    PROVE  LinksKeep /\ (l # 0 => links'[l].effects > 0)
<1>1. /\ Len(links') = Len(links)
      /\ \A k \in 1..Len(links) :
            /\ links'[k].kind = links[k].kind /\ links'[k].user = links[k].user
            /\ links'[k].email = links[k].email /\ links'[k].exp = links[k].exp
            /\ links'[k].to = links[k].to
            /\ links'[k].effects = IF k = l THEN links[k].effects + 1 ELSE links[k].effects
  BY EffectIs
<1>2. \A k \in 1..Len(links) : links[k].effects \in Nat
  BY LinkIs DEF Types, LinksOK
<1> QED
  BY <1>1, <1>2 DEF LinksKeep

LEMMA CommandKeeps ==
    ASSUME Types, NEW t \in Threads, Command(t) PROVE LinksKeep
<1>1. CASE links' = links
  BY <1>1 DEF LinksKeep
<1>2. CASE links' # links
  <2>1. /\ Effect(call[t].link)
        /\ Head1(t) \in {"confirm", "hash", "move", "redeem"}
    BY <1>2 DEF Command, Authenticate, Check, Load, Recall, DropJti, Unindex, Mark, Index, List, Sweep,
           RevokeKeys, Consume, MarkConfirmed, UpdatePasswordHash, ChangeEmail, RedeemInvite, Write, LookFree,
           Create, Patch, Remove, RemoveRole, mailVars
  <2>2. At(call[t]) \in {"confirm", "hash", "move", "redeem"} /\ CallOK(call[t])
    BY <2>1, AtHead
  <2>3. call[t].link \in {0} \cup 1..Len(links)
    BY <2>2 DEF CallOK, Comes
  <2> QED
    BY <2>1, <2>3, EffectKeeps
<1> QED
  BY <1>1, <1>2

LEMMA ReachedStays ==
    ASSUME LinksKeep, NEW u, users'[u].email = users[u].email, Reached(u) PROVE Reached(u)'
  BY DEF LinksKeep, Reached

LEMMA ProvenStays ==
    ASSUME LinksKeep, NEW u, users'[u].email = users[u].email, Proven(u),
           users'[u].confirmed => users[u].confirmed \/ Reached(u)'
    PROVE  Proven(u)'
<1>1. Reached(u) => Reached(u)'
  BY ReachedStays
<1> QED
  BY <1>1 DEF Proven, LinksKeep

LEMMA ProvenCommand ==
    ASSUME Types, NEW t \in Threads, Command(t), vouched' = vouched \cup ByAdmin, ConfInv,
           NEW u \in Users, Exists(u)', u \notin vouched'
    PROVE  Proven(u)'
<1>1. PICK c : c = call[t]
  OBVIOUS
<1>2. CallOK(c) /\ c \in Calls
  BY <1>1, AtHead
<1>3. LinksKeep
  BY CommandKeeps
<1>4. u \notin vouched /\ u \notin ByAdmin
  OBVIOUS
<1>5. Exists(u) => Proven(u)
  BY <1>4 DEF ConfInv
<1>6. c.user = u => At(c) # "patch" /\ ~(At(c) = "create" /\ c.confirmed)
  BY <1>1, <1>4, AtHead DEF ByAdmin
<1>7. CASE users'[u] = users[u]
  BY <1>3, <1>5, <1>7, ProvenStays DEF Exists, Proven
<1>8. CASE users[u] = NoUser /\ At(c) = "create" /\ c.user = u /\ users'[u].confirmed = c.confirmed
  <2>1. users'[u].confirmed = FALSE
    BY <1>2, <1>6, <1>8 DEF Calls
  <2>2. \A l \in 1..Len(links) : links[l].user # u
    BY <1>8 DEF Types, LinksOK, Born
  <2> QED
    BY <1>3, <2>1, <2>2 DEF Proven, LinksKeep
<1>9. CASE /\ Exists(u) /\ c.user = u
           /\ \/ users'[u].email = users[u].email
              \/ At(c) = "move" /\ users'[u].email = c.email /\ Effect(c.link)
           /\ \/ users'[u].confirmed = users[u].confirmed
              \/ At(c) \in {"confirm", "redeem"} /\ Effect(c.link)
  <2>1. CASE At(c) = "move" /\ users'[u].email = c.email /\ Effect(c.link)
    <3>1. PICK l : l = c.link
      OBVIOUS
    <3>2. /\ l \in 1..Len(links) /\ links[l].kind = "email" /\ links[l].user = u
          /\ links[l].email = c.email /\ links[l].to = c.email
      BY <1>2, <1>9, <2>1, <3>1 DEF CallOK, Comes, ConfInv
    <3>3. links'[l].effects > 0
      <4>1. l # 0
        BY <3>2
      <4> QED
        BY <2>1, <3>1, <3>2, <4>1, EffectKeeps
    <3>4. Reached(u)'
      BY <1>3, <2>1, <3>2, <3>3 DEF Reached, LinksKeep
    <3> QED
      BY <3>4 DEF Proven
  <2>2. CASE users'[u].email = users[u].email /\ At(c) \in {"confirm", "redeem"} /\ Effect(c.link)
    <3>1. PICK l : l = c.link
      OBVIOUS
    <3>2. l \in 1..Len(links) /\ links[l].kind # "email" /\ links[l].user = u
      BY <1>2, <1>9, <2>2, <3>1 DEF CallOK, Comes
    <3>3. links'[l].effects > 0
      <4>1. l # 0
        BY <3>2
      <4> QED
        BY <2>2, <3>1, <3>2, <4>1, EffectKeeps
    <3>4. Reached(u)'
      <4>1. CASE links[l].to = users[u].email
        BY <1>3, <2>2, <3>2, <3>3, <4>1 DEF Reached, LinksKeep
      <4>2. CASE Reached(u)
        BY <1>3, <2>2, <4>2, ReachedStays
      <4> QED
        BY <1>5, <1>9, <3>2, <4>1, <4>2 DEF Proven
    <3> QED
      BY <3>4 DEF Proven
  <2>3. CASE users'[u].email = users[u].email /\ users'[u].confirmed = users[u].confirmed
    BY <1>3, <1>5, <1>9, <2>3, ProvenStays
  <2> QED
    BY <1>9, <2>1, <2>2, <2>3
<1>10. RowStep(t, u)
  BY RowSteps
<1> QED
  BY <1>1, <1>6, <1>7, <1>8, <1>9, <1>10 DEF RowStep

LEMMA ConfCommand ==
    ASSUME Types, NEW t \in Threads, Command(t), vouched' = vouched \cup ByAdmin, ConfInv PROVE ConfInv'
<1>1. LinksKeep
  BY CommandKeeps
<1>2. \A l \in 1..Len(links') : links'[l].kind = "email" => links'[l].to = links'[l].email
  BY <1>1 DEF LinksKeep, ConfInv
<1>3. \A u \in Users : Exists(u)' /\ u \notin vouched' => Proven(u)'
  BY ProvenCommand
<1> QED
  BY <1>2, <1>3 DEF ConfInv

LEMMA ConfIdle ==
    ASSUME UNCHANGED <<users, links>>, vouched \subseteq vouched', ConfInv PROVE ConfInv'
<1>1. \A u : Exists(u)' = Exists(u) /\ Proven(u)' = Proven(u)
  BY DEF Exists, Proven, Reached
<1> QED
  BY <1>1 DEF ConfInv

LEMMA ConfDeliver ==
    ASSUME Types, NEW m \in mails, Deliver(m), vouched \subseteq vouched', ConfInv PROVE ConfInv'
<1>1. PICK x, n : x = Issue(m) /\ n = Len(links) + 1
  OBVIOUS
<1>2. users' = users
  BY DEF Deliver, tables
<1>3. CASE links' = links
  BY <1>2, <1>3, ConfIdle
<1>4. CASE links' # links
  <2>1. /\ Exists(m.user) /\ x.user = m.user /\ x.kind = m.kind /\ x.effects = 0
        /\ Len(links') = n /\ links'[n] = x
        /\ \A l \in 1..Len(links) : links'[l] = links[l]
    BY <1>1, <1>4, DeliverIs
  <2>2. Len(links) \in Nat
    BY DEF Types, LinksOK
  <2>3. \A l \in 1..Len(links') : l = n \/ l \in 1..Len(links)
    BY <1>1, <2>1, <2>2
  <2>4. x.to = (IF m.kind = "email" THEN m.email ELSE users[m.user].email) /\ x.email = m.email
    BY <1>1 DEF Issue, Recipient
  <2>5. \A l \in 1..Len(links') : links'[l].kind = "email" => links'[l].to = links'[l].email
    BY <2>1, <2>3, <2>4 DEF ConfInv
  <2>6. ASSUME NEW u \in Users, Exists(u), u \notin vouched'
        PROVE  Proven(u)'
    <3>1. Proven(u)
      BY <2>6 DEF ConfInv
    <3>2. 1..Len(links) \subseteq 1..Len(links')
      BY <1>1, <2>1, <2>2
    <3>3. Reached(u) => Reached(u)'
      BY <1>2, <2>1, <3>2 DEF Reached
    <3>4. ASSUME NEW l \in 1..Len(links'), links'[l].user = u, links'[l].kind # "email"
          PROVE  links'[l].to = users[u].email \/ Reached(u)'
      <4>1. CASE l = n
        BY <2>1, <2>4, <3>4, <4>1
      <4>2. CASE l \in 1..Len(links)
        BY <2>1, <3>1, <3>3, <3>4, <4>2 DEF Proven
      <4> QED
        BY <2>3, <4>1, <4>2
    <3> QED
      BY <1>2, <3>1, <3>3, <3>4 DEF Proven
  <2> QED
    BY <1>2, <2>5, <2>6 DEF ConfInv, Exists
<1> QED
  BY <1>3, <1>4

LEMMA ConfNext == Types /\ ConfInv /\ [Next]_vars => ConfInv'
<1> SUFFICES ASSUME Types, ConfInv, [Next]_vars PROVE ConfInv'
  OBVIOUS
<1>1. CASE UNCHANGED vars
  BY <1>1, ConfIdle DEF vars, tables, mailVars, history
<1>2. CASE Next
  <2>1. vouched' = vouched \cup ByAdmin
    BY <1>2 DEF Next
  <2>2. ASSUME UNCHANGED <<users, links>> PROVE ConfInv'
    BY <2>1, <2>2, ConfIdle
  <2>3. ASSUME NEW t \in Threads, Command(t) PROVE ConfInv'
    BY <2>1, <2>3, ConfCommand
  <2>4. ASSUME NEW t \in Threads,
               \/ /\ Handlers(t)
                  /\ UNCHANGED <<tables, redisVars, mailVars, keys, used, access, now, faults>>
               \/ Fail(t)
        PROVE  ConfInv'
    BY <2>2, <2>4 DEF Fail, tables, mailVars
  <2>5. CASE QuickHandlers /\ UNCHANGED <<now, faults>>
    <3>1. UNCHANGED <<users, links>>
      BY <2>5 DEF QuickHandlers, RequestReset, ResendConfirm, CreateKey, RevokeKey, RequestChangeEmail, PutRole,
                  Ask, Quick, WriteRoles, tables, mailVars
    <3> QED
      BY <2>2, <3>1
  <2>6. ASSUME NEW m \in mails, Deliver(m) PROVE ConfInv'
    BY <2>1, <2>6, ConfDeliver
  <2>7. CASE ReapUsed \/ CatchUp \/ Tick \/ \E a \in access : AccessExpires(a)
    BY <2>2, <2>7 DEF ReapUsed, CatchUp, Tick, AccessExpires, tables, mailVars
  <2> QED
    BY <1>2, <2>3, <2>4, <2>5, <2>6, <2>7 DEF Next, Step
<1> QED
  BY <1>1, <1>2

LEMMA ConfInit == Init => ConfInv
  BY DEF Init, ConfInv, Proven, Exists

(* The address of a confirmed user was reached by a link that took effect,   *)
(* or an administrator put it there.                                          *)
THEOREM AddressesAreProven == Spec => []ConfirmedIsProven
<1>1. ConfInv => ConfirmedIsProven
  BY DEF ConfInv, Proven, Reached, ConfirmedIsProven
<1> QED
  BY <1>1, TypesInit, TypesNext, ConfInit, ConfNext, PTL DEF Spec

-----------------------------------------------------------------------------
(* OldCredentialsDie.  Unless a session of the user is minted meanwhile:     *)
(* every live session of a user is in the index of the user, or its handler  *)
(* is about to put it there; what revoke_all() has listed stays all there is *)
(* until it is deleted; and once the password is new, what goes back to the  *)
(* old one is there only while the handler has still to sweep it.            *)
LiveOf(u) == {j \in live : sessions[j].user = u}
Someone(places, u) == \E t \in Threads : At(call[t]) \in places /\ call[t].user = u
Proof(c) == IF c.jti = 0 THEN c.password ELSE sessions[c.jti].password
Dropping == {"drop", "out_drop"}
Unindexing == {"unindex", "out_unindex"}
DropsOK == \A t \in Threads :
    /\ At(call[t]) \in Dropping \cup Unindexing => call[t].listed \subseteq {call[t].jti}
    /\ At(call[t]) \in Unindexing => call[t].jti \notin live
Listed(u) ==
    /\ \A t \in Threads : At(call[t]) = "sweep" /\ call[t].user = u => LiveOf(u) \subseteq call[t].listed
    /\ \A j \in LiveOf(u) : \/ j \in index[u]
                            \/ \E t \in Threads : At(call[t]) = "index" /\ call[t].jti = j /\ call[t].user = u
MintsCurrent(u) == \A t \in Threads : At(call[t]) \in Minters /\ call[t].user = u =>
                      Proof(call[t]) = users[u].password
LiveCurrent(u) == \/ Someone({"list", "sweep"}, u)
                  \/ \A j \in LiveOf(u) : sessions[j].password = users[u].password
KeysCurrent(u) == \/ Someone({"list", "sweep", "keys"}, u)
                  \/ \A k \in keys : k.user = u => k.password = users[u].password
CredInv ==
    faults = 0 =>
        /\ DropsOK
        /\ \A u \in Users : <<"user", u>> \notin raced =>
              Listed(u) /\ (Exists(u) => MintsCurrent(u) /\ LiveCurrent(u))
        /\ \A u \in Users : Exists(u) => KeysCurrent(u)

(* Of which user a session is minted has no handler that changes the password. *)
Quiet(u) == \A t \in Threads : At(call[t]) \in Minters /\ call[t].user = u =>
               /\ replica.users[u] = users[u]
               /\ \A s \in Threads : ~(call[s].user = u /\ At(call[s]) \in Changers)

LEMMA QuietUnraced ==
    ASSUME Clashes, Noticed, NEW u \in Users, <<"user", u>> \notin raced PROVE Quiet(u)
  BY DEF Clashes, Noticed, Quiet

LEMMA Dispatch ==
    ASSUME Types, NEW t \in Threads, Command(t)
    PROVE  /\ At(call[t]) = "mark" => Mark(t)
           /\ At(call[t]) \in Unindexing => Unindex(t)
           /\ At(call[t]) = "index" => Index(t)
           /\ At(call[t]) = "list" => List(t)
           /\ At(call[t]) = "sweep" => Sweep(t)
           /\ At(call[t]) = "keys" => RevokeKeys(t)
           /\ At(call[t]) \in Dropping => DropJti(t)
           /\ At(call[t]) \in {"recall", "out_recall"} => Recall(t)
           /\ At(call[t]) = "check" => Check(t)
           /\ At(call[t]) = "authenticate" => Authenticate(t)
           /\ At(call[t]) # "idle"
           /\ At(call[t]) # "mark" => sessions' = sessions /\ live' \subseteq live
           /\ At(call[t]) \notin Unindexing \cup {"index", "sweep"} => index' = index
           /\ keys' \subseteq keys
<1>1. PICK h : h = Head1(t)
  OBVIOUS
<1>2. /\ h = "mark" => Mark(t)
      /\ h = "unindex" => Unindex(t)
      /\ h = "index" => Index(t)
      /\ h = "list" => List(t)
      /\ h = "sweep" => Sweep(t)
      /\ h = "keys" => RevokeKeys(t)
      /\ h = "drop" => DropJti(t)
      /\ h = "recall" => Recall(t)
      /\ h = "check" => Check(t)
      /\ h = "authenticate" => Authenticate(t)
      /\ h # ""
  BY <1>1 DEF Command, Authenticate, Check, Load, Recall, DropJti, Unindex, Mark, Index, List, Sweep, RevokeKeys,
         Consume, MarkConfirmed, UpdatePasswordHash, ChangeEmail, RedeemInvite, Write, LookFree, Create,
         Patch, Remove, RemoveRole
<1>3. /\ h # "mark" => sessions' = sessions /\ live' \subseteq live
      /\ h \notin {"unindex", "index", "sweep"} => index' = index
      /\ keys' \subseteq keys
  BY <1>1 DEF Command, Authenticate, Check, Load, Recall, DropJti, Unindex, Mark, Index, List, Sweep, RevokeKeys,
         Consume, MarkConfirmed, UpdatePasswordHash, ChangeEmail, RedeemInvite, Write, LookFree, Create,
         Patch, Remove, RemoveRole, redisVars
<1>4. /\ h = "mark" <=> At(call[t]) = "mark"
      /\ h = "unindex" <=> At(call[t]) \in Unindexing
      /\ h = "index" <=> At(call[t]) = "index"
      /\ h = "list" <=> At(call[t]) = "list"
      /\ h = "sweep" <=> At(call[t]) = "sweep"
      /\ h = "keys" <=> At(call[t]) = "keys"
      /\ h = "drop" <=> At(call[t]) \in Dropping
      /\ h = "recall" <=> At(call[t]) \in {"recall", "out_recall"}
      /\ h = "check" <=> At(call[t]) = "check"
      /\ h = "authenticate" <=> At(call[t]) = "authenticate"
      /\ h = "" <=> At(call[t]) = "idle"
  BY <1>1, AtHead DEF Unindexing, Dropping
<1> QED
  BY <1>2, <1>3, <1>4

(* mint_session() keeps what is there, and adds a session of its user. *)
LEMMA LiveMark ==
    ASSUME Types, NEW t \in Threads, Mark(t)
    PROVE  \E n : /\ n \in Nat /\ n = Len(sessions) + 1 /\ live' = live \cup {n} /\ n \notin live
                  /\ At(call'[t]) = "index" /\ call'[t].jti = n /\ call'[t].user = call[t].user
                  /\ sessions'[n].user = call[t].user /\ sessions'[n].password = Proof(call[t])
                  /\ \A j \in 1..Len(sessions) : sessions'[j] = sessions[j]
                  /\ index' = index /\ At(call[t]) = "mark"
<1>1. PICK c, n : c = call[t] /\ n = Len(sessions) + 1
  OBVIOUS
<1>2. /\ CallOK(c) /\ At(c) = "mark" /\ n \in Nat
      /\ \A i \in 1..Len(sessions) : sessions'[i] = sessions[i]
      /\ sessions'[n].user = c.user
      /\ sessions'[n].password = IF c.jti = 0 THEN c.password ELSE sessions[c.jti].password
  BY <1>1, MarkIs
<1>3. PICK d : d = Onward([c EXCEPT !.jti = n])
  OBVIOUS
<1>4. At(d) = "index" /\ d.jti = n /\ d.user = c.user
  BY <1>2, <1>3, Marked DEF CallOK
<1>5. Moves(t, d)
  BY <1>1, <1>3, Proceeds DEF Mark
<1>6. call'[t] = d
  BY <1>5, Frame
<1>7. n \notin live
  BY <1>1, <1>2 DEF Types, SessionsOK
<1>8. live' = live \cup {n} /\ index' = index
  BY <1>1 DEF Mark
<1> QED
  BY <1>1, <1>2, <1>4, <1>6, <1>7, <1>8 DEF Proof

LEMMA LiveAre ==
    ASSUME Types, NEW u, NEW j \in LiveOf(u)
    PROVE  j \in 1..Len(sessions) /\ j \in live /\ sessions[j].user = u
  BY DEF LiveOf, Types, SessionsOK

(* Without a session minted, the live ones can only die. *)
LEMMA LiveShrinks ==
    ASSUME sessions' = sessions, live' \subseteq live, NEW u PROVE LiveOf(u)' \subseteq LiveOf(u)
  BY DEF LiveOf

LEMMA DropsCommand ==
    ASSUME Types, DropsOK, NEW t \in Threads, Command(t) PROVE DropsOK'
<1>1. PICK c : c = call[t]
  OBVIOUS
<1>2. PICK d : Moves(t, d) /\ Turn(c, d)
  BY <1>1, CommandTurns
<1>3. call'[t] = d /\ \A s \in Threads : s # t => call'[s] = call[s]
  BY <1>2, Frame
<1>4. ASSUME NEW s \in Threads, s # t, At(call[s]) \in Unindexing, call[s].jti \notin live
      PROVE  call[s].jti \notin live'
  <2>1. CASE Mark(t)
    <3>1. PICK n : n = Len(sessions) + 1 /\ live' = live \cup {n} /\ n \in Nat
      BY <2>1, LiveMark
    <3>2. call[s].jti \in 1..Len(sessions)
      BY <1>4, AtHead DEF CallOK, Refreshing, Rotates, Unindexing
    <3> QED
      BY <1>4, <3>1, <3>2
  <2>2. CASE ~Mark(t)
    BY <1>4, <2>2, Dispatch
  <2> QED
    BY <2>1, <2>2
<1>5. At(d) \in Dropping => d.listed \subseteq {d.jti}
  <2>1. ASSUME At(d) \in Dropping PROVE d.listed \subseteq {d.jti}
    <3>1. d # Blank
      BY <2>1, BlankOK DEF Dropping
    <3>2. At(c) \in {"recall", "out_recall"}
      BY <1>2, <2>1, <3>1 DEF Turn, Follows, Dropping
    <3>3. Recall(t)
      BY <1>1, <3>2, Dispatch
    <3>4. PICK n, e : n = {c.jti} \cap live /\ e = Onward([c EXCEPT !.listed = n])
      OBVIOUS
    <3>5. n \in SUBSET Nat
      BY <1>1, <3>4, AtHead DEF Calls
    <3>6. Moves(t, e)
      BY <1>1, <3>3, <3>4, Proceeds DEF Recall
    <3>7. d = e
      BY <1>3, <3>6, Frame
    <3>8. CallOK(c)
      BY <1>1, AtHead
    <3>9. d.listed = n /\ d.jti = c.jti
      BY <3>2, <3>4, <3>5, <3>7, <3>8, Noted
    <3> QED
      BY <3>4, <3>9
  <2> QED
    BY <2>1
<1>6. At(d) \in Unindexing => d.listed \subseteq {d.jti} /\ d.jti \notin live'
  <2>1. ASSUME At(d) \in Unindexing PROVE d.listed \subseteq {d.jti} /\ d.jti \notin live'
    <3>1. d # Blank
      BY <2>1, BlankOK DEF Unindexing
    <3>2. At(c) \in Dropping /\ d.listed = c.listed /\ d.jti = c.jti
      BY <1>2, <2>1, <3>1 DEF Turn, Follows, Dropping, Unindexing
    <3>3. DropJti(t)
      BY <1>1, <3>2, Dispatch
    <3> QED
      BY <1>1, <3>2, <3>3 DEF DropJti, DropsOK
  <2> QED
    BY <2>1
<1>7. ASSUME NEW s \in Threads
      PROVE  /\ At(call[s])' \in Dropping \cup Unindexing => call'[s].listed \subseteq {call'[s].jti}
             /\ At(call[s])' \in Unindexing => call'[s].jti \notin live'
  <2>1. CASE s = t
    <3>1. At(call[s])' = At(d)
      BY <1>3, <2>1, AtStays
    <3> QED
      BY <1>3, <1>5, <1>6, <2>1, <3>1
  <2>2. CASE s # t
    <3>1. At(call[s])' = At(call[s]) /\ call'[s] = call[s]
      BY <1>3, <2>2, AtStays
    <3> QED
      BY <1>4, <2>2, <3>1 DEF DropsOK
  <2> QED
    BY <2>1, <2>2
<1> QED
  BY <1>7 DEF DropsOK

(* Every command but those of the index. *)
LEMMA ListedElse ==
    ASSUME Types, NEW t \in Threads, NEW d, Moves(t, d), At(d) # "sweep", At(call[t]) # "index",
           NEW u, Listed(u), LiveOf(u)' \subseteq LiveOf(u), index'[u] = index[u]
    PROVE  Listed(u)'
<1>1. call'[t] = d /\ \A s \in Threads : s # t => call'[s] = call[s]
  BY Frame
<1>2. ASSUME NEW s \in Threads PROVE At(call[s])' = IF s = t THEN At(d) ELSE At(call[s])
  BY <1>1, AtStays
<1>3. ASSUME NEW s \in Threads, At(call[s])' = "sweep", call'[s].user = u
      PROVE  LiveOf(u)' \subseteq call'[s].listed
  BY <1>1, <1>2, <1>3 DEF Listed
<1>4. ASSUME NEW j \in LiveOf(u)'
      PROVE  \/ j \in index'[u]
             \/ \E s \in Threads : At(call[s])' = "index" /\ call'[s].jti = j /\ call'[s].user = u
  <2>1. CASE j \in index[u]
    BY <2>1
  <2>2. CASE j \notin index[u]
    <3>1. PICK s \in Threads : At(call[s]) = "index" /\ call[s].jti = j /\ call[s].user = u
      BY <1>4, <2>2 DEF Listed
    <3>2. s # t
      BY <3>1
    <3> QED
      BY <1>1, <1>2, <3>1, <3>2
  <2> QED
    BY <2>1, <2>2
<1> QED
  BY <1>3, <1>4 DEF Listed

LEMMA ListedCommand ==
    ASSUME Types, DropsOK, NEW t \in Threads, Command(t), NEW u \in Users, Quiet(u), Listed(u)
    PROVE  Listed(u)'
<1>1. PICK c : c = call[t]
  OBVIOUS
<1>2. CallOK(c) /\ c \in Calls
  BY <1>1, AtHead
<1>3. PICK d : Moves(t, d) /\ Turn(c, d)
  BY <1>1, CommandTurns
<1>4. call'[t] = d /\ \A s \in Threads : s # t => call'[s] = call[s]
  BY <1>3, Frame
<1>5. ASSUME NEW s \in Threads PROVE At(call[s])' = IF s = t THEN At(d) ELSE At(call[s])
  BY <1>4, AtStays
<1>6. index \in [Users -> SUBSET (1..Len(sessions))]
  BY DEF Types, SessionsOK
<1>7. At(d) = "sweep" => At(c) = "list"
  <2>1. At(d) = "sweep" => d # Blank
    BY BlankOK
  <2> QED
    BY <1>3, <2>1 DEF Turn, Follows
<1>8. CASE Mark(t)
  <2>1. PICK n : /\ n \in Nat /\ n = Len(sessions) + 1 /\ live' = live \cup {n} /\ n \notin live
                 /\ At(d) = "index" /\ d.jti = n /\ d.user = c.user
                 /\ sessions'[n].user = c.user
                 /\ \A j \in 1..Len(sessions) : sessions'[j] = sessions[j]
                 /\ index' = index /\ At(c) = "mark"
    BY <1>1, <1>4, <1>8, LiveMark
  <2>2. ASSUME NEW j \in LiveOf(u)' PROVE (j = n /\ c.user = u) \/ j \in LiveOf(u)
    BY <2>1, <2>2 DEF LiveOf, Types, SessionsOK
  <2>3. CASE c.user # u
    <3>1. LiveOf(u)' \subseteq LiveOf(u)
      BY <2>2, <2>3
    <3> QED
      BY <1>1, <1>3, <2>1, <3>1, ListedElse
  <2>4. CASE c.user = u
    <3>1. \A s \in Threads : ~(call[s].user = u /\ At(call[s]) = "sweep")
      BY <1>1, <2>1, <2>4 DEF Quiet, Minters, Changers
    <3>2. \A s \in Threads : ~(At(call[s])' = "sweep" /\ call'[s].user = u)
      BY <1>4, <1>5, <2>1, <3>1
    <3>3. ASSUME NEW j \in LiveOf(u)'
          PROVE  \/ j \in index'[u]
                 \/ \E s \in Threads : At(call[s])' = "index" /\ call'[s].jti = j /\ call'[s].user = u
      <4>1. CASE j = n
        BY <1>4, <1>5, <2>1, <2>4, <4>1
      <4>2. CASE j \in LiveOf(u) /\ j \notin index[u]
        <5>1. PICK s \in Threads : At(call[s]) = "index" /\ call[s].jti = j /\ call[s].user = u
          BY <4>2 DEF Listed
        <5>2. s # t
          BY <1>1, <2>1, <5>1
        <5> QED
          BY <1>4, <1>5, <5>1, <5>2
      <4> QED
        BY <2>1, <2>2, <3>3, <4>1, <4>2
    <3> QED
      BY <3>2, <3>3 DEF Listed
  <2> QED
    BY <2>3, <2>4
<1>9. CASE ~Mark(t)
  <2>1. sessions' = sessions /\ live' \subseteq live /\ LiveOf(u)' \subseteq LiveOf(u)
    BY <1>9, Dispatch, LiveShrinks
  <2>2. CASE At(c) = "index"
    <3>1. index' = [index EXCEPT ![c.user] = @ \cup {c.jti}] /\ Return(t)
      BY <1>1, <2>2, Dispatch DEF Index
    <3>2. call'[t] = Blank
      BY <3>1, Returns, Frame
    <3>3. index[u] \subseteq index'[u] /\ (c.user = u => c.jti \in index'[u])
      BY <1>6, <3>1
    <3>4. ASSUME NEW s \in Threads, At(call[s])' = "sweep", call'[s].user = u
          PROVE  LiveOf(u)' \subseteq call'[s].listed
      BY <1>4, <1>5, <1>7, <2>1, <2>2, <3>4 DEF Listed
    <3>5. ASSUME NEW j \in LiveOf(u)', j \notin index'[u]
          PROVE  \E s \in Threads : At(call[s])' = "index" /\ call'[s].jti = j /\ call'[s].user = u
      <4>1. j \in LiveOf(u) /\ j \notin index[u]
        BY <2>1, <3>3, <3>5
      <4>2. PICK s \in Threads : At(call[s]) = "index" /\ call[s].jti = j /\ call[s].user = u
        BY <4>1 DEF Listed
      <4>3. s # t
        BY <1>1, <3>3, <3>5, <4>2
      <4> QED
        BY <1>4, <1>5, <4>2, <4>3
    <3> QED
      BY <3>4, <3>5 DEF Listed
  <2>3. CASE At(c) = "list"
    <3>1. List(t) /\ index' = index
      BY <1>1, <2>3, Dispatch DEF Unindexing
    <3>2. PICK n, e : n = index[c.user] /\ e = Onward([c EXCEPT !.listed = n])
      OBVIOUS
    <3>3. n \in SUBSET Nat
      BY <1>2, <1>6, <2>3, <3>2 DEF CallOK
    <3>4. Moves(t, e)
      BY <1>1, <3>1, <3>2, Proceeds DEF List
    <3>5. d = e
      BY <1>4, <3>4, Frame
    <3>6. d.listed = n /\ d.user = c.user
      BY <1>2, <2>3, <3>2, <3>3, <3>5, Noted
    <3>7. c.user = u => LiveOf(u) \subseteq index[u]
      <4>1. ASSUME c.user = u, NEW j \in LiveOf(u), j \notin index[u] PROVE FALSE
        <5>1. PICK s \in Threads : At(call[s]) = "index" /\ call[s].jti = j /\ call[s].user = u
          BY <4>1 DEF Listed
        <5> QED
          BY <1>1, <2>3, <4>1, <5>1 DEF Quiet, Minters, Changers
      <4> QED
        BY <4>1
    <3>8. ASSUME NEW s \in Threads, At(call[s])' = "sweep", call'[s].user = u
          PROVE  LiveOf(u)' \subseteq call'[s].listed
      <4>1. CASE s = t
        BY <1>4, <2>1, <3>2, <3>6, <3>7, <3>8, <4>1
      <4>2. CASE s # t
        BY <1>4, <1>5, <2>1, <3>8, <4>2 DEF Listed
      <4> QED
        BY <4>1, <4>2
    <3>9. ASSUME NEW j \in LiveOf(u)', j \notin index'[u]
          PROVE  \E s \in Threads : At(call[s])' = "index" /\ call'[s].jti = j /\ call'[s].user = u
      <4>1. PICK s \in Threads : At(call[s]) = "index" /\ call[s].jti = j /\ call[s].user = u
        BY <2>1, <3>1, <3>9 DEF Listed
      <4>2. s # t
        BY <1>1, <2>3, <4>1
      <4> QED
        BY <1>4, <1>5, <4>1, <4>2
    <3> QED
      BY <3>8, <3>9 DEF Listed
  <2>4. CASE At(c) = "sweep"
    <3>1. live' = live \ c.listed /\ index' = [index EXCEPT ![c.user] = {}]
      BY <1>1, <2>4, Dispatch DEF Sweep
    <3>2. CASE c.user = u
      <4>1. LiveOf(u) \subseteq c.listed
        BY <1>1, <2>4, <3>2 DEF Listed
      <4>2. LiveOf(u)' = {}
        BY <2>1, <3>1, <4>1 DEF LiveOf
      <4> QED
        BY <4>2 DEF Listed
    <3>3. CASE c.user # u
      <4>1. index'[u] = index[u]
        BY <1>6, <3>1, <3>3
      <4> QED
        BY <1>1, <1>3, <1>7, <2>1, <2>4, <4>1, ListedElse
    <3> QED
      BY <3>2, <3>3
  <2>5. CASE At(c) \in Unindexing
    <3>1. index' = [index EXCEPT ![c.user] = @ \ c.listed]
      BY <1>1, <2>5, Dispatch DEF Unindex
    <3>2. c.listed \cap live = {}
      BY <1>1, <2>5 DEF DropsOK
    <3>3. ASSUME NEW s \in Threads, At(call[s])' = "sweep", call'[s].user = u
          PROVE  LiveOf(u)' \subseteq call'[s].listed
      BY <1>4, <1>5, <1>7, <2>1, <2>5, <3>3 DEF Listed, Unindexing
    <3>4. ASSUME NEW j \in LiveOf(u)', j \notin index'[u]
          PROVE  \E s \in Threads : At(call[s])' = "index" /\ call'[s].jti = j /\ call'[s].user = u
      <4>1. j \in LiveOf(u) /\ j \in live
        BY <2>1, <3>4 DEF LiveOf
      <4>2. j \notin index[u]
        BY <1>6, <3>1, <3>2, <3>4, <4>1
      <4>3. PICK s \in Threads : At(call[s]) = "index" /\ call[s].jti = j /\ call[s].user = u
        BY <4>1, <4>2 DEF Listed
      <4>4. s # t
        BY <1>1, <2>5, <4>3 DEF Unindexing
      <4> QED
        BY <1>4, <1>5, <4>3, <4>4
    <3> QED
      BY <3>3, <3>4 DEF Listed
  <2>6. CASE At(c) \notin Unindexing \cup {"index", "list", "sweep"}
    <3>1. index' = index
      BY <1>1, <2>6, Dispatch
    <3> QED
      BY <1>1, <1>3, <1>7, <2>1, <2>6, <3>1, ListedElse
  <2> QED
    BY <2>2, <2>3, <2>4, <2>5, <2>6
<1> QED
  BY <1>8, <1>9

LEMMA PasswordStep ==
    ASSUME Types, NEW t \in Threads, Command(t), NEW u \in Users, Exists(u)'
    PROVE  \/ users[u] = NoUser /\ At(call[t]) = "create"
           \/ Exists(u) /\ users'[u].password = users[u].password
           \/ /\ Exists(u) /\ call[t].user = u /\ At(call[t]) \in {"hash", "redeem"}
              /\ At(call'[t]) = "list" /\ call'[t].user = u
<1>1. RowStep(t, u)
  BY RowSteps
<1>2. users'[u] = users[u] => Exists(u)
  BY DEF Exists
<1>3. CASE call[t].user = u /\ At(call[t]) \in {"hash", "redeem"} /\ GoOn(t)
  <2>1. PICK c, d : c = call[t] /\ d = Onward(c)
    OBVIOUS
  <2>2. c \in Calls
    BY <2>1, AtHead
  <2>3. At(d) = "list" /\ d.user = c.user
    BY <1>3, <2>1, <2>2, Route DEF Lasts, Follows
  <2>4. call'[t] = d
    BY <1>3, <2>1, GoesOn, Frame
  <2> QED
    BY <1>1, <1>2, <1>3, <2>1, <2>3, <2>4 DEF RowStep
<1> QED
  BY <1>1, <1>2, <1>3 DEF RowStep

LEMMA NoTokens ==
    ASSUME Types, NEW u \in Users, users[u] = NoUser
    PROVE  /\ LiveOf(u) = {}
           /\ \A t \in Threads : At(call[t]) \in Minters => call[t].user # u
           /\ \A k \in keys : k.user # u
<1>1. \A j \in 1..Len(sessions) : sessions[j].user # u
  BY DEF Types, SessionsOK, Born
<1>2. LiveOf(u) = {}
  BY <1>1 DEF LiveOf, Types, SessionsOK
<1>3. ASSUME NEW t \in Threads, At(call[t]) \in Minters, call[t].user = u PROVE FALSE
  <2>1. PICK c : c = call[t]
    OBVIOUS
  <2>2. CallOK(c)
    BY <2>1, AtHead
  <2>3. Rotates(c) \/ Born(u)
    BY <1>3, <2>1, <2>2 DEF CallOK, Minters, Refreshing
  <2> QED
    BY <1>1, <1>3, <2>1, <2>3 DEF Rotates, Born
<1>4. \A k \in keys : k.user # u
  BY DEF Types, RestOK, Exists, IsRow
<1> QED
  BY <1>2, <1>3, <1>4

LEMMA ListGoes ==
    ASSUME Types, NEW t \in Threads, List(t)
    PROVE  At(call'[t]) = "sweep" /\ call'[t].user = call[t].user
<1>1. PICK c : c = call[t]
  OBVIOUS
<1>2. CallOK(c) /\ At(c) = "list"
  BY <1>1, AtHead DEF List
<1>3. PICK n, e : n = index[c.user] /\ e = Onward([c EXCEPT !.listed = n])
  OBVIOUS
<1>4. n \in SUBSET Nat
  BY <1>2, <1>3 DEF CallOK, Types, SessionsOK
<1>5. Moves(t, e)
  BY <1>1, <1>3, Proceeds DEF List
<1>6. call'[t] = e
  BY <1>5, Frame
<1>7. Follows(At(c), At(e)) /\ e.user = c.user
  BY <1>2, <1>3, <1>4, Noted
<1> QED
  BY <1>1, <1>2, <1>6, <1>7 DEF Follows

LEMMA SweepGoes ==
    ASSUME Types, NEW t \in Threads, Sweep(t)
    PROVE  At(call'[t]) = "keys" /\ call'[t].user = call[t].user
<1>1. PICK c, d : c = call[t] /\ d = Onward(c)
  OBVIOUS
<1>2. c \in Calls /\ At(c) = "sweep"
  BY <1>1, AtHead DEF Sweep
<1>3. At(d) = "keys" /\ d.user = c.user
  BY <1>1, <1>2, Route DEF Lasts, Follows
<1>4. call'[t] = d
  BY <1>1, GoesOn, Frame DEF Sweep
<1> QED
  BY <1>1, <1>3, <1>4

LEMMA MintsCommand ==
    ASSUME Types, NEW t \in Threads, Command(t), NEW u \in Users, Exists(u)', Quiet(u), Quiet(u)',
           Exists(u) => MintsCurrent(u) /\ LiveCurrent(u)
    PROVE  MintsCurrent(u)'
<1>1. PICK c : c = call[t]
  OBVIOUS
<1>2. CallOK(c) /\ c \in Calls
  BY <1>1, AtHead
<1>3. PICK d : Moves(t, d) /\ Turn(c, d)
  BY <1>1, CommandTurns
<1>4. call'[t] = d /\ \A s \in Threads : s # t => call'[s] = call[s]
  BY <1>3, Frame
<1>5. ASSUME NEW s \in Threads PROVE At(call[s])' = IF s = t THEN At(d) ELSE At(call[s])
  BY <1>4, AtStays
<1>6. \A j \in 1..Len(sessions) : sessions'[j] = sessions[j]
  BY LiveMark, Dispatch
<1>7. ASSUME NEW s \in Threads, s # t, At(call[s])' \in Minters, call'[s].user = u
      PROVE  Proof(call[s])' = users'[u].password
  <2>1. PICK x : x = call[s]
    OBVIOUS
  <2>2. At(x) \in Minters /\ x.user = u /\ call'[s] = x
    BY <1>4, <1>5, <1>7, <2>1
  <2>3. Exists(u) /\ users'[u].password = users[u].password
    <3>1. users[u] # NoUser
      BY <2>1, <2>2, NoTokens
    <3>2. ~(call[t].user = u /\ At(call[t]) \in {"hash", "redeem"})
      BY <2>1, <2>2 DEF Quiet, Changers
    <3> QED
      BY <3>1, <3>2, PasswordStep
  <2>4. Proof(x) = users[u].password
    BY <2>1, <2>2, <2>3 DEF MintsCurrent
  <2>5. x.jti = 0 \/ x.jti \in 1..Len(sessions)
    BY <2>1, <2>2, AtHead DEF CallOK, Minters, Refreshing, Rotates
  <2>6. Proof(call[s])' = Proof(x)
    BY <1>6, <2>2, <2>5 DEF Proof
  <2> QED
    BY <2>3, <2>4, <2>6
<1>8. ASSUME At(d) \in Minters, d.user = u
      PROVE  (IF d.jti = 0 THEN d.password ELSE sessions'[d.jti].password) = users'[u].password
  <2>1. d # Blank
    BY <1>8, BlankOK DEF Minters
  <2>2. /\ Follows(At(c), At(d))
        /\ At(c) # "authenticate" => d.user = c.user
        /\ At(c) # "mark" => d.jti = c.jti
    BY <1>3, <1>8, <2>1 DEF Turn, Minters
  <2>3. /\ replica'.users[u] = users'[u]
        /\ \A s \in Threads : ~(call'[s].user = u /\ At(call[s])' \in Changers)
    BY <1>4, <1>5, <1>8 DEF Quiet
  <2>4. At(c) \in {"authenticate", "check", "load", "recall", "drop", "unindex", "mark"}
    BY <1>8, <2>2 DEF Follows, Minters
  <2>5. Exists(u) /\ users'[u].password = users[u].password
    BY <1>1, <2>4, PasswordStep
  <2>6. CASE At(c) = "authenticate"
    <3>1. PICK v, e : v = ByEmail(replica.users, c.email)
                      /\ e = Onward([c EXCEPT !.user = v, !.claims = Claims(v, replica)])
      OBVIOUS
    <3>2. Authenticate(t)
      BY <1>1, <2>6, Dispatch
    <3>3. ~Return(t)
      BY <1>4, <2>1, Returns, Frame
    <3>4. /\ Taken(replica.users, c.email) /\ replica.users[v].password = c.password /\ replica' = replica
          /\ Proceed(t, [c EXCEPT !.user = v, !.claims = Claims(v, replica)])
      BY <1>1, <3>1, <3>2, <3>3 DEF Authenticate, tables
    <3>5. v \in Users /\ IsRow(replica.users[v])
      BY <3>1, <3>4, ByEmailIs
    <3>6. LoggedIn(c, v, e)
      BY <1>2, <2>6, <3>1, <3>5, Authenticated
    <3>7. d = e
      BY <1>4, <3>1, <3>4, Proceeds, Frame
    <3> QED
      BY <1>8, <2>3, <3>4, <3>6, <3>7 DEF LoggedIn
  <2>7. CASE At(c) = "check"
    <3>1. Check(t) /\ ~Return(t)
      BY <1>1, <1>4, <2>1, <2>7, Dispatch, Returns, Frame
    <3>2. c.jti \in live
      BY <1>1, <3>1 DEF Check
    <3>3. Rotates(c) /\ c.user = u /\ d.jti = c.jti
      BY <1>2, <1>8, <2>2, <2>7 DEF CallOK, Refreshing
    <3>4. c.jti \in LiveOf(u) /\ c.jti \in 1..Len(sessions)
      BY <3>2, <3>3 DEF LiveOf, Rotates
    <3>5. ~Someone({"list", "sweep"}, u)
      <4>1. ASSUME NEW s \in Threads, At(call[s]) \in {"list", "sweep"}, call[s].user = u PROVE FALSE
        <5>1. s # t
          BY <1>1, <2>7, <4>1
        <5> QED
          BY <1>4, <1>5, <2>3, <4>1, <5>1 DEF Changers
      <4> QED
        BY <4>1 DEF Someone
    <3>6. sessions[c.jti].password = users[u].password
      BY <2>5, <3>4, <3>5 DEF LiveCurrent
    <3>7. d.jti # 0
      BY <3>3, <3>4
    <3> QED
      BY <1>6, <2>5, <3>3, <3>4, <3>6, <3>7
  <2>8. CASE At(c) = "mark"
    <3>1. PICK n : n \in Nat /\ n = Len(sessions) + 1 /\ d.jti = n /\ sessions'[n].password = Proof(c)
      BY <1>1, <1>4, <2>8, Dispatch, LiveMark
    <3>2. c.user = u
      BY <1>8, <2>2, <2>8
    <3>3. Proof(c) = users[u].password
      BY <1>1, <2>5, <2>8, <3>2 DEF MintsCurrent, Minters
    <3>4. n # 0
      BY <3>1 DEF Types, SessionsOK
    <3> QED
      BY <2>5, <3>1, <3>3, <3>4
  <2>9. CASE At(c) \in {"load", "recall", "drop", "unindex"}
    <3>1. c.user = u /\ d.jti = c.jti /\ c.jti \in 1..Len(sessions)
      BY <1>2, <1>8, <2>2, <2>9 DEF CallOK, Refreshing, Rotates
    <3>2. c.jti # 0
      BY <3>1
    <3>3. Proof(c) = users[u].password
      BY <1>1, <2>5, <2>9, <3>1 DEF MintsCurrent, Minters
    <3> QED
      BY <1>6, <2>5, <3>1, <3>2, <3>3 DEF Proof
  <2> QED
    BY <2>4, <2>6, <2>7, <2>8, <2>9
<1>9. ASSUME NEW s \in Threads, At(call[s])' \in Minters, call'[s].user = u
      PROVE  Proof(call[s])' = users'[u].password
  <2>1. CASE s = t
    <3>1. Proof(call[s])' = IF d.jti = 0 THEN d.password ELSE sessions'[d.jti].password
      BY <1>4, <2>1 DEF Proof
    <3> QED
      BY <1>4, <1>5, <1>8, <1>9, <2>1, <3>1
  <2> QED
    BY <1>7, <1>9, <2>1
<1> QED
  BY <1>9 DEF MintsCurrent

LEMMA LiveCommand ==
    ASSUME Types, NEW t \in Threads, Command(t), NEW u \in Users, Exists(u)', Listed(u),
           Exists(u) => MintsCurrent(u) /\ LiveCurrent(u)
    PROVE  LiveCurrent(u)'
<1>1. PICK c, d : c = call[t] /\ Moves(t, d)
  BY CommandTurns
<1>2. call'[t] = d /\ \A s \in Threads : s # t => call'[s] = call[s]
  BY <1>1, Frame
<1>3. ASSUME NEW s \in Threads PROVE At(call[s])' = IF s = t THEN At(d) ELSE At(call[s])
  BY <1>2, AtStays
<1>4. ASSUME NEW s \in Threads, At(call'[s]) \in {"list", "sweep"}, call'[s].user = u
      PROVE  LiveCurrent(u)'
  <2>1. At(call[s])' = At(call'[s])
    BY AtStays
  <2>2. Someone({"list", "sweep"}, u)'
    BY <1>4, <2>1 DEF Someone
  <2> QED
    BY <2>2 DEF LiveCurrent
<1>5. CASE users[u] = NoUser /\ At(c) = "create"
  <2>1. LiveOf(u) = {} /\ LiveOf(u)' \subseteq LiveOf(u)
    BY <1>1, <1>5, NoTokens, Dispatch, LiveShrinks
  <2> QED
    BY <2>1 DEF LiveCurrent
<1>6. CASE At(d) = "list" /\ d.user = u
  BY <1>2, <1>4, <1>6
<1>7. CASE Exists(u) /\ users'[u].password = users[u].password
  <2>1. CASE \E s \in Threads : s # t /\ At(call[s]) \in {"list", "sweep"} /\ call[s].user = u
    BY <1>2, <1>4, <2>1
  <2>2. CASE At(c) \in {"list", "sweep"} /\ c.user = u
    <3>1. CASE At(c) = "list"
      <4>1. At(d) = "sweep" /\ d.user = u
        BY <1>1, <1>2, <2>2, <3>1, Dispatch, ListGoes
      <4> QED
        BY <1>2, <1>4, <4>1
    <3>2. CASE At(c) = "sweep"
      <4>1. live' = live \ c.listed /\ sessions' = sessions
        BY <1>1, <3>2, Dispatch DEF Sweep
      <4>2. LiveOf(u) \subseteq c.listed
        BY <1>1, <2>2, <3>2 DEF Listed
      <4>3. LiveOf(u)' = {}
        BY <4>1, <4>2 DEF LiveOf
      <4> QED
        BY <4>3 DEF LiveCurrent
    <3> QED
      BY <2>2, <3>1, <3>2
  <2>3. CASE \A j \in LiveOf(u) : sessions[j].password = users[u].password
    <3>1. CASE Mark(t)
      <4>1. PICK n : /\ n \in Nat /\ n = Len(sessions) + 1 /\ live' = live \cup {n}
                     /\ sessions'[n].user = c.user /\ sessions'[n].password = Proof(c)
                     /\ \A j \in 1..Len(sessions) : sessions'[j] = sessions[j]
                     /\ At(c) = "mark"
        BY <1>1, <3>1, LiveMark
      <4>2. ASSUME NEW j \in LiveOf(u)' PROVE sessions'[j].password = users[u].password
        <5>1. CASE j = n
          <6>1. c.user = u
            BY <4>1, <4>2, <5>1 DEF LiveOf
          <6>2. Proof(c) = users[u].password
            BY <1>1, <1>7, <4>1, <6>1 DEF MintsCurrent, Minters
          <6> QED
            BY <4>1, <5>1, <6>2
        <5>2. CASE j # n
          <6>1. j \in LiveOf(u) /\ j \in 1..Len(sessions)
            BY <4>1, <4>2, <5>2 DEF LiveOf, Types, SessionsOK
          <6> QED
            BY <2>3, <4>1, <6>1
        <5> QED
          BY <5>1, <5>2
      <4> QED
        BY <1>7, <4>2 DEF LiveCurrent
    <3>2. CASE ~Mark(t)
      <4>1. sessions' = sessions /\ LiveOf(u)' \subseteq LiveOf(u)
        BY <3>2, Dispatch, LiveShrinks
      <4> QED
        BY <1>7, <2>3, <4>1 DEF LiveCurrent
    <3> QED
      BY <3>1, <3>2
  <2> QED
    BY <1>1, <1>7, <2>1, <2>2, <2>3 DEF LiveCurrent, Someone
<1> QED
  BY <1>1, <1>2, <1>5, <1>6, <1>7, PasswordStep

LEMMA KeysCommand ==
    ASSUME Types, NEW t \in Threads, Command(t), NEW u \in Users, Exists(u)',
           Exists(u) => KeysCurrent(u)
    PROVE  KeysCurrent(u)'
<1>1. PICK c, d : c = call[t] /\ Moves(t, d)
  BY CommandTurns
<1>2. call'[t] = d /\ \A s \in Threads : s # t => call'[s] = call[s]
  BY <1>1, Frame
<1>3. ASSUME NEW s \in Threads, At(call'[s]) \in {"list", "sweep", "keys"}, call'[s].user = u
      PROVE  KeysCurrent(u)'
  <2>1. At(call[s])' = At(call'[s])
    BY AtStays
  <2>2. Someone({"list", "sweep", "keys"}, u)'
    BY <1>3, <2>1 DEF Someone
  <2> QED
    BY <2>2 DEF KeysCurrent
<1>4. keys' \subseteq keys
  BY Dispatch
<1>5. CASE users[u] = NoUser
  BY <1>4, <1>5, NoTokens DEF KeysCurrent
<1>6. CASE At(d) = "list" /\ d.user = u
  BY <1>2, <1>3, <1>6
<1>7. CASE Exists(u) /\ users'[u].password = users[u].password
  <2>1. CASE \E s \in Threads : s # t /\ At(call[s]) \in {"list", "sweep", "keys"} /\ call[s].user = u
    BY <1>2, <1>3, <2>1
  <2>2. CASE At(c) \in {"list", "sweep", "keys"} /\ c.user = u
    <3>1. CASE At(c) \in {"list", "sweep"}
      <4>1. At(d) \in {"sweep", "keys"} /\ d.user = u
        BY <1>1, <1>2, <2>2, <3>1, Dispatch, ListGoes, SweepGoes
      <4> QED
        BY <1>2, <1>3, <4>1
    <3>2. CASE At(c) = "keys"
      <4>1. \A k \in keys' : k.user # u
        BY <1>1, <2>2, <3>2, Dispatch DEF RevokeKeys
      <4> QED
        BY <4>1 DEF KeysCurrent
    <3> QED
      BY <2>2, <3>1, <3>2
  <2>3. CASE \A k \in keys : k.user = u => k.password = users[u].password
    BY <1>4, <1>7, <2>3 DEF KeysCurrent
  <2> QED
    BY <1>1, <1>7, <2>1, <2>2, <2>3 DEF KeysCurrent, Someone
<1> QED
  BY <1>1, <1>2, <1>5, <1>6, <1>7, PasswordStep

(* The steps that send no command. *)
LEMMA CredHandlers ==
    ASSUME Types, CredInv, NEW t \in Threads, Handlers(t), UNCHANGED <<tables, redisVars, keys, faults>>,
           raced \subseteq raced'
    PROVE  CredInv'
<1>1. PICK d : Begins(t, d)
  BY HandlersBegin
<1>2. PICK c : c = call[t]
  OBVIOUS
<1>3. At(c) = "idle" /\ Moves(t, d) /\ At(d) \in Starts
  BY <1>1, <1>2, BlankOK DEF Begins, Fresh
<1>4. call'[t] = d /\ \A s \in Threads : s # t => call'[s] = call[s]
  BY <1>3, Frame
<1>5. ASSUME NEW s \in Threads PROVE At(call[s])' = IF s = t THEN At(d) ELSE At(call[s])
  BY <1>4, AtStays
<1>6. UNCHANGED <<users, sessions, live, index>> /\ faults' = faults
  BY DEF tables, redisVars
<1>7. \A u \in Users : Exists(u)' = Exists(u) /\ LiveOf(u)' = LiveOf(u)
  BY <1>6 DEF Exists, LiveOf
<1>8. DropsOK => DropsOK'
  BY <1>3, <1>4, <1>5, <1>6 DEF DropsOK, Starts, Dropping, Unindexing
<1>9. ASSUME NEW u \in Users, Listed(u) PROVE Listed(u)'
  BY <1>2, <1>3, <1>6, <1>7, <1>9, ListedElse DEF Starts
<1>10. ASSUME NEW u \in Users, MintsCurrent(u) PROVE MintsCurrent(u)'
  <2>1. ASSUME NEW s \in Threads, At(call[s])' \in Minters, call'[s].user = u
        PROVE  Proof(call[s])' = users'[u].password
    <3>1. s # t
      BY <1>3, <1>5, <2>1 DEF Starts, Minters
    <3>2. At(call[s]) \in Minters /\ call[s].user = u /\ Proof(call[s])' = Proof(call[s])
      BY <1>4, <1>5, <1>6, <2>1, <3>1 DEF Proof
    <3> QED
      BY <1>6, <1>10, <3>2 DEF MintsCurrent
  <2> QED
    BY <2>1 DEF MintsCurrent
<1>11. ASSUME NEW u \in Users, NEW places, "idle" \notin places, Someone(places, u)
       PROVE  \E s \in Threads : At(call[s])' \in places /\ call'[s].user = u
  <2>1. PICK s \in Threads : At(call[s]) \in places /\ call[s].user = u
    BY <1>11 DEF Someone
  <2>2. s # t
    BY <1>2, <1>3, <1>11, <2>1
  <2> QED
    BY <1>4, <1>5, <2>1, <2>2
<1>12. ASSUME NEW u \in Users, LiveCurrent(u) PROVE LiveCurrent(u)'
  <2>1. CASE Someone({"list", "sweep"}, u)
    <3>1. Someone({"list", "sweep"}, u)'
      BY <1>11, <2>1 DEF Someone
    <3> QED
      BY <3>1 DEF LiveCurrent
  <2> QED
    BY <1>6, <1>7, <1>12, <2>1 DEF LiveCurrent
<1>13. ASSUME NEW u \in Users, KeysCurrent(u) PROVE KeysCurrent(u)'
  <2>1. CASE Someone({"list", "sweep", "keys"}, u)
    <3>1. Someone({"list", "sweep", "keys"}, u)'
      BY <1>11, <2>1 DEF Someone
    <3> QED
      BY <3>1 DEF KeysCurrent
  <2> QED
    BY <1>6, <1>13, <2>1 DEF KeysCurrent
<1> QED
  BY <1>6, <1>7, <1>8, <1>9, <1>10, <1>12, <1>13 DEF CredInv

LEMMA CredIdle ==
    ASSUME CredInv, UNCHANGED <<users, redisVars, call, faults>>, raced \subseteq raced',
           \A k \in keys' : k \in keys \/ k.password = users[k.user].password
    PROVE  CredInv'
<1>1. UNCHANGED <<live, index, sessions>>
  BY DEF redisVars
<1>2. \A t : At(call[t])' = At(call[t]) /\ Proof(call[t])' = Proof(call[t])
  BY <1>1 DEF At, Place, Proof
<1>3. \A u : LiveOf(u)' = LiveOf(u) /\ Exists(u)' = Exists(u) /\ \A p : Someone(p, u)' = Someone(p, u)
  BY <1>1, <1>2 DEF LiveOf, Exists, Someone
<1>4. DropsOK => DropsOK'
  BY <1>1, <1>2 DEF DropsOK
<1>5. ASSUME NEW u \in Users PROVE Listed(u) => Listed(u)'
  BY <1>1, <1>2, <1>3 DEF Listed
<1>6. ASSUME NEW u \in Users PROVE MintsCurrent(u) => MintsCurrent(u)'
  BY <1>2 DEF MintsCurrent
<1>7. ASSUME NEW u \in Users PROVE (LiveCurrent(u) => LiveCurrent(u)') /\ (KeysCurrent(u) => KeysCurrent(u)')
  BY <1>1, <1>3 DEF LiveCurrent, KeysCurrent
<1> QED
  BY <1>3, <1>4, <1>5, <1>6, <1>7 DEF CredInv

Calm == \A u \in Users : <<"user", u>> \notin raced => Quiet(u)
LEMMA CalmShows == Clashes /\ Noticed => Calm
  BY QuietUnraced DEF Calm

LEMMA CredNext == Types /\ Calm /\ Calm' /\ CredInv /\ [Next]_vars => CredInv'
<1> SUFFICES ASSUME Types, Calm, Calm', CredInv, [Next]_vars PROVE CredInv'
  OBVIOUS
<1>1. CASE UNCHANGED vars
  BY <1>1, CredIdle DEF vars, tables, redisVars, history
<1>2. CASE Next
  <2>1. raced \subseteq raced'
    BY <1>2 DEF Next
  <2>2. ASSUME NEW t \in Threads, Command(t), UNCHANGED <<now, calls, faults>> PROVE CredInv'
    <3>1. SUFFICES ASSUME faults = 0
                   PROVE  /\ DropsOK'
                          /\ \A u \in Users : <<"user", u>> \notin raced' =>
                                Listed(u)' /\ (Exists(u)' => MintsCurrent(u)' /\ LiveCurrent(u)')
                          /\ \A u \in Users : Exists(u)' => KeysCurrent(u)'
      BY <2>2 DEF CredInv
    <3>2. DropsOK
      BY <3>1 DEF CredInv
    <3>3. DropsOK'
      BY <2>2, <3>2, DropsCommand
    <3>4. ASSUME NEW u \in Users, <<"user", u>> \notin raced'
          PROVE  Listed(u)' /\ (Exists(u)' => MintsCurrent(u)' /\ LiveCurrent(u)')
      <4>1. /\ Quiet(u) /\ Quiet(u)'
            /\ Listed(u) /\ (Exists(u) => MintsCurrent(u) /\ LiveCurrent(u))
        BY <2>1, <3>1, <3>4 DEF Calm, CredInv
      <4> QED
        BY <2>2, <3>2, <4>1, ListedCommand, MintsCommand, LiveCommand
    <3>5. ASSUME NEW u \in Users, Exists(u)' PROVE KeysCurrent(u)'
      <4>1. Exists(u) => KeysCurrent(u)
        BY <3>1 DEF CredInv
      <4> QED
        BY <2>2, <3>5, <4>1, KeysCommand
    <3> QED
      BY <3>3, <3>4, <3>5
  <2>3. ASSUME NEW t \in Threads, Handlers(t),
               UNCHANGED <<tables, redisVars, mailVars, keys, used, access, now, faults>>
        PROVE  CredInv'
    BY <2>1, <2>3, CredHandlers
  <2>4. ASSUME NEW t \in Threads, Fail(t) PROVE CredInv'
    <3>1. faults' # 0
      BY <2>4 DEF Fail, Types, RestOK
    <3> QED
      BY <3>1 DEF CredInv
  <2>5. CASE QuickHandlers /\ UNCHANGED <<now, faults>>
    <3>1. UNCHANGED <<users, redisVars, call>>
      BY <2>5 DEF QuickHandlers, RequestReset, ResendConfirm, CreateKey, RevokeKey, RequestChangeEmail, PutRole,
                  Ask, Quick, WriteRoles, tables
    <3>2. \A k \in keys' : k \in keys \/ k.password = users[k.user].password
      <4>1. CASE \E c \in Principals : CreateKey(c)
        <5>1. PICK c \in Principals : CreateKey(c)
          BY <4>1
        <5>2. PICK x : x = [id |-> calls', user |-> c.user, password |-> users[c.user].password]
          OBVIOUS
        <5>3. x.user = c.user /\ x.password = users[c.user].password /\ keys' = keys \cup {x}
          BY <5>1, <5>2 DEF CreateKey
        <5> QED
          BY <5>3
      <4>2. CASE ~\E c \in Principals : CreateKey(c)
        <5>1. keys' \subseteq keys
          BY <2>5, <4>2 DEF QuickHandlers, RequestReset, ResendConfirm, RevokeKey, RequestChangeEmail, PutRole, Ask
        <5> QED
          BY <5>1
      <4> QED
        BY <4>1, <4>2
    <3> QED
      BY <2>1, <2>5, <3>1, <3>2, CredIdle
  <2>6. CASE \/ ReapUsed \/ CatchUp \/ Tick \/ \E a \in access : AccessExpires(a)
             \/ \E m \in mails : Deliver(m)
    <3>1. UNCHANGED <<users, redisVars, call, faults, keys>>
      BY <2>6 DEF ReapUsed, CatchUp, Tick, AccessExpires, Deliver, tables
    <3> QED
      BY <2>1, <3>1, CredIdle
  <2> QED
    BY <1>2, <2>2, <2>3, <2>4, <2>5, <2>6 DEF Next, Step
<1> QED
  BY <1>1, <1>2

LEMMA CredInit == Init => CredInv
<1> SUFFICES ASSUME Init PROVE CredInv
  OBVIOUS
<1>1. \A t \in Threads : At(call[t]) = "idle"
  BY BlankOK DEF Init
<1>2. live = {} /\ keys = {}
  BY DEF Init
<1>3. DropsOK
  BY <1>1 DEF DropsOK, Dropping, Unindexing
<1>4. ASSUME NEW u \in Users PROVE Listed(u) /\ MintsCurrent(u) /\ LiveCurrent(u) /\ KeysCurrent(u)
  <2>1. LiveOf(u) = {}
    BY <1>2 DEF LiveOf
  <2> QED
    BY <1>1, <1>2, <2>1 DEF Listed, MintsCurrent, LiveCurrent, KeysCurrent, Minters
<1> QED
  BY <1>3, <1>4 DEF CredInv

(* changePassword(), applyReset(), joinFromInvite(): when the handler is     *)
(* done, no session and no API key that goes back to the old password is     *)
(* left, unless a session was being minted meanwhile or a command failed.    *)
THEOREM OldCredentialsGo == Spec => []OldCredentialsDie
<1>1. Types /\ CredInv => OldCredentialsDie
  <2> SUFFICES ASSUME Types, CredInv PROVE OldCredentialsDie
    OBVIOUS
  <2>1. faults = 0 \/ faults > 0
    BY DEF Types, RestOK
  <2>2. ASSUME NEW u \in Users, NEW places \in SUBSET Changers, Someone(places, u) PROVE Changing(u)
    <3>1. PICK t \in Threads : At(call[t]) \in Changers /\ call[t].user = u
      BY <2>2 DEF Someone
    <3>2. PICK s : s = call[t].todo
      OBVIOUS
    <3>3. s \in Todos
      BY <3>2, AtHead DEF Calls
    <3>4. In(s, "hash") \/ In(s, "keys")
      BY <3>1, <3>2, <3>3, Meaning DEF At
    <3>5. Has(t, "hash") \/ Has(t, "keys")
      BY <3>2, <3>4 DEF Has, In
    <3> QED
      BY <3>1, <3>5 DEF Changing
  <2>3. ASSUME NEW j \in live, faults = 0, Exists(sessions[j].user), ~Changing(sessions[j].user),
               <<"user", sessions[j].user>> \notin raced
        PROVE  sessions[j].password = users[sessions[j].user].password
    <3>1. PICK u : u = sessions[j].user
      OBVIOUS
    <3>2. u \in Users
      BY <2>3, <3>1, SessionIs DEF Types, SessionsOK
    <3>3. LiveCurrent(u) /\ j \in LiveOf(u)
      BY <2>3, <3>1, <3>2 DEF CredInv, LiveOf
    <3>4. ~Someone({"list", "sweep"}, u)
      BY <2>2, <2>3, <3>1, <3>2 DEF Changers
    <3> QED
      BY <3>1, <3>3, <3>4 DEF LiveCurrent
  <2>4. ASSUME NEW k \in keys, faults = 0, Exists(k.user), ~Changing(k.user)
        PROVE  k.password = users[k.user].password
    <3>1. PICK u : u = k.user
      OBVIOUS
    <3>2. u \in Users
      BY <2>4, <3>1 DEF Types, RestOK
    <3>3. KeysCurrent(u)
      BY <2>4, <3>1, <3>2 DEF CredInv
    <3>4. ~Someone({"list", "sweep", "keys"}, u)
      BY <2>2, <2>4, <3>1, <3>2 DEF Changers
    <3> QED
      BY <3>1, <3>3, <3>4 DEF KeysCurrent
  <2> QED
    BY <2>1, <2>3, <2>4 DEF OldCredentialsDie
<1> QED
  BY <1>1, TypesInit, TypesNext, ClashesShow, NoticedInit, NoticedNext, CalmShows, CredInit, CredNext, PTL
  DEF Spec
=============================================================================
