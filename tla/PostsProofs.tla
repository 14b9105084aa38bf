----------------------------- MODULE PostsProofs ----------------------------
(***************************************************************************)
(* What the blog promises for tables of any size, any number of editors,   *)
(* any lag of the replica and any lifetime of a preview link: dates follow *)
(* the status; a PATCH keeps what it does not name, since what its editor  *)
(* has read stands until another write overtakes it (ReadsStand); and the  *)
(* pages of the feed, the chips, and the neighbours of a post agree with   *)
(* the rows and with each other.                                           *)
(***************************************************************************)
EXTENDS Posts, FiniteSetTheorems, SequenceTheorems, WellFoundedInduction, TLAPS

Edits == [id : Ids, body : Bodies, base : Rows, overtaken : BOOLEAN]
Types ==
    /\ posts \in [DOMAIN posts -> Rows] /\ replica \in [DOMAIN replica -> Rows]
    /\ DOMAIN posts \subseteq used /\ used \subseteq Ids /\ DOMAIN replica \subseteq Ids
    /\ edits \in [DOMAIN edits -> Edits]
    /\ link \in [sub : Nat, exp : Nat]
    /\ now \in 1 .. MaxTime /\ writes \in 0 .. MaxWrites
(* What an editor has read is what its UPDATE will find, unless overtaken. *)
ReadsStand ==
    \A e \in DOMAIN edits : ~edits[e].overtaken =>
        edits[e].id \in DOMAIN posts /\ posts[edits[e].id] = edits[e].base

LEMMA MergedIs ==
    ASSUME NEW body \in Bodies, NEW base \in Rows
    PROVE  /\ Merged(body, base) \in [slug : Slugs, topic : Topics, status : Statuses, at : 0 .. MaxTime]
           /\ Merged(body, base).at = base.at
           /\ \A f \in {"slug", "topic", "status"} \ DOMAIN body : Merged(body, base)[f] = base[f]
<1>1. DOMAIN base = {"slug", "topic", "status", "at"}
  BY DEF Rows
<1>2. "at" \notin DOMAIN body
  BY DEF Bodies
<1>3. \A f \in DOMAIN body : \/ f = "slug" /\ body[f] \in Slugs
                             \/ f = "topic" /\ body[f] \in Topics
                             \/ f = "status" /\ body[f] \in Statuses
  BY DEF Bodies
<1>4. PICK m : m = Merged(body, base)
  OBVIOUS
<1>5. m = [f \in {"slug", "topic", "status", "at"} |-> IF f \in DOMAIN body THEN body[f] ELSE base[f]]
  BY <1>1, <1>4 DEF Merged
<1>6. m["slug"] \in Slugs /\ m["topic"] \in Topics /\ m["status"] \in Statuses /\ m["at"] = base["at"]
  BY <1>2, <1>3, <1>5 DEF Rows
<1>7. m = [slug |-> m["slug"], topic |-> m["topic"], status |-> m["status"], at |-> m["at"]]
  BY <1>5
<1>8. base.at \in 0 .. MaxTime
  BY DEF Rows
<1> QED
  BY <1>1, <1>4, <1>5, <1>6, <1>7, <1>8

LEMMA TypesInit == Init => Types /\ ReadsStand
  BY BoundsAssumption DEF Init, Types, ReadsStand, Empty, NoLink

-----------------------------------------------------------------------------
(* A row that is added or written, and rows that are removed. *)
LEMMA CreateOK ==
    ASSUME Types, ReadsStand, NEW i \in Ids, NEW s \in Slugs, NEW t \in Topics, NEW st \in Statuses,
           CreatePost(i, s, t, st)
    PROVE  Types' /\ ReadsStand'
<1>1. PICK row : row = NewRow(s, t, st)
  OBVIOUS
<1>2. now \in 1 .. MaxTime /\ MaxTime \in Nat
  BY BoundsAssumption DEF Types
<1>3. row \in Rows
  BY <1>1, <1>2 DEF NewRow, Rows, Statuses
<1>4. posts' = With(posts, i, row) /\ i \notin used /\ used' = used \union {i}
  BY <1>1 DEF CreatePost, Commit
<1>5. /\ DOMAIN posts' = DOMAIN posts \union {i}
      /\ \A j \in DOMAIN posts : posts'[j] = posts[j]
      /\ posts' \in [DOMAIN posts' -> Rows]
  <2>1. posts \in [DOMAIN posts -> Rows] /\ i \notin DOMAIN posts
    BY <1>4 DEF Types
  <2> QED
    BY <1>3, <1>4, <2>1 DEF With
<1>6. UNCHANGED <<edits, replica, link, now>> /\ writes' \in 0 .. MaxWrites
  BY BoundsAssumption DEF CreatePost, Commit, Types
<1> QED
  BY <1>4, <1>5, <1>6 DEF Types, ReadsStand

LEMMA OvertakeOK ==
    ASSUME Types, ReadsStand, NEW i, NEW others \in SUBSET DOMAIN edits, edits' = Overtake(i, others)
    PROVE  /\ edits' \in [DOMAIN edits' -> Edits] /\ DOMAIN edits' = others
           /\ \A e \in DOMAIN edits' : ~edits'[e].overtaken =>
                 /\ edits'[e].id # i /\ edits'[e].id \in DOMAIN posts
                 /\ posts[edits'[e].id] = edits'[e].base
<1>1. DOMAIN edits' = others
  BY DEF Overtake
<1>2. ASSUME NEW e \in others
      PROVE  /\ edits'[e] = [edits[e] EXCEPT !.overtaken = edits[e].overtaken \/ edits[e].id = i]
             /\ edits[e] \in Edits
  BY <1>2 DEF Overtake, Types
<1>3. ASSUME NEW e \in others
      PROVE  /\ edits'[e] \in Edits /\ edits'[e].id = edits[e].id /\ edits'[e].base = edits[e].base
             /\ edits'[e].overtaken = (edits[e].overtaken \/ edits[e].id = i)
  BY <1>2 DEF Edits
<1>4. edits' \in [others -> Edits]
  BY <1>3 DEF Overtake
<1> QED
  BY <1>1, <1>3, <1>4 DEF ReadsStand

LEMMA ReadOK ==
    ASSUME Types, ReadsStand, NEW e \in Editors, NEW i \in Ids, NEW b \in Bodies, ReadForUpdate(e, i, b)
    PROVE  Types' /\ ReadsStand'
<1>1. PICK d : d = [id |-> i, body |-> b, base |-> posts[i], overtaken |-> FALSE]
  OBVIOUS
<1>2. i \in DOMAIN posts /\ posts[i] \in Rows
  BY DEF ReadForUpdate, MergeBase, Types
<1>3. d \in Edits
  BY <1>1, <1>2 DEF Edits
<1>4. edits' = With(edits, e, d) /\ e \notin DOMAIN edits
  BY <1>1 DEF ReadForUpdate, MergeBase
<1>5. /\ DOMAIN edits' = DOMAIN edits \union {e} /\ edits'[e] = d
      /\ \A c \in DOMAIN edits : edits'[c] = edits[c]
      /\ edits' \in [DOMAIN edits' -> Edits]
  <2>1. edits \in [DOMAIN edits -> Edits]
    BY DEF Types
  <2> QED
    BY <1>3, <1>4, <2>1 DEF With
<1>6. UNCHANGED <<posts, replica, used, link, now, writes>>
  BY DEF ReadForUpdate
<1> QED
  BY <1>1, <1>2, <1>5, <1>6 DEF Types, ReadsStand

(* The row that the UPDATE of an editor writes. *)
Written(e) ==
    LET in == Merged(edits[e].body, edits[e].base)
    IN  [in EXCEPT !.at = PublishedAt(posts[edits[e].id], in.status)]
LEMMA WrittenIs ==
    ASSUME Types, NEW e \in DOMAIN edits, edits[e].id \in DOMAIN posts
    PROVE  /\ Written(e) \in Rows
           /\ \A f \in {"slug", "topic", "status"} \ DOMAIN edits[e].body :
                 Written(e)[f] = edits[e].base[f]
           /\ Written(e).status = "published" /\ posts[edits[e].id].status = "published" =>
                 Written(e).at = posts[edits[e].id].at
<1>0. PICK i, in, row : i = edits[e].id /\ in = Merged(edits[e].body, edits[e].base) /\ row = Written(e)
  OBVIOUS
<1>1. edits[e].body \in Bodies /\ edits[e].base \in Rows /\ posts[i] \in Rows
  BY <1>0 DEF Types, Edits
<1>2. /\ in \in [slug : Slugs, topic : Topics, status : Statuses, at : 0 .. MaxTime]
      /\ \A f \in {"slug", "topic", "status"} \ DOMAIN edits[e].body : in[f] = edits[e].base[f]
  BY <1>0, <1>1, MergedIs
<1>3. PICK d : d = PublishedAt(posts[i], in.status)
  OBVIOUS
<1>4. now \in 1 .. MaxTime /\ MaxTime \in Nat
  BY BoundsAssumption DEF Types
<1>5. posts[i].at \in 0 .. MaxTime /\ (posts[i].status = "published" <=> posts[i].at # 0)
  BY <1>1 DEF Rows
<1>6. /\ d \in 0 .. MaxTime /\ (in.status = "published" <=> d # 0)
      /\ in.status = "published" /\ posts[i].at # 0 => d = posts[i].at
  <2>1. CASE in.status /= "published"
    BY <1>3, <1>4, <2>1 DEF PublishedAt
  <2>2. CASE in.status = "published" /\ posts[i].at /= 0
    BY <1>3, <1>5, <2>2 DEF PublishedAt
  <2>3. CASE in.status = "published" /\ posts[i].at = 0
    BY <1>3, <1>4, <2>3 DEF PublishedAt
  <2> QED
    BY <2>1, <2>2, <2>3
<1>7. row = [slug |-> in.slug, topic |-> in.topic, status |-> in.status, at |-> d]
  BY <1>0, <1>2, <1>3 DEF Written
<1>8. row \in Rows
  BY <1>2, <1>6, <1>7 DEF Rows
<1> QED
  BY <1>0, <1>2, <1>5, <1>6, <1>7, <1>8

LEMMA UpdateOK ==
    ASSUME Types, ReadsStand, NEW e \in Editors, UpdatePost(e)
    PROVE  Types' /\ ReadsStand'
<1>1. PICK i, in, row, others :
         /\ i = edits[e].id /\ in = Merged(edits[e].body, edits[e].base)
         /\ row = Written(e)
         /\ others = DOMAIN edits \ {e}
  OBVIOUS
<1>2. e \in DOMAIN edits /\ UNCHANGED <<used, replica, link, now>>
  BY DEF UpdatePost, Commit
<1>3. CASE i \notin DOMAIN posts \/ Taken(in.slug, i)
  <2>1. edits' = Restrict(edits, others) /\ UNCHANGED <<posts, writes>>
    BY <1>1, <1>3 DEF UpdatePost
  <2>2. DOMAIN edits' = others /\ \A c \in others : edits'[c] = edits[c]
    BY <2>1 DEF Restrict
  <2>3. edits' \in [others -> Edits]
    BY <1>1, <2>1, <2>2 DEF Types, Restrict
  <2>4. ReadsStand'
    BY <1>1, <2>1, <2>2 DEF ReadsStand
  <2> QED
    BY <1>2, <2>1, <2>2, <2>3, <2>4 DEF Types
<1>4. CASE ~(i \notin DOMAIN posts \/ Taken(in.slug, i))
  <2>1. /\ posts' = [posts EXCEPT ![i] = row] /\ edits' = Overtake(i, others)
        /\ writes < MaxWrites /\ writes' = writes + 1
    BY <1>1, <1>4 DEF UpdatePost, Commit, Written
  <2>2. row \in Rows
    BY <1>1, <1>2, <1>4, WrittenIs
  <2>3. /\ DOMAIN posts' = DOMAIN posts /\ posts' \in [DOMAIN posts' -> Rows]
        /\ \A j \in DOMAIN posts : j # i => posts'[j] = posts[j]
    BY <1>4, <2>1, <2>2 DEF Types
  <2>4. others \in SUBSET DOMAIN edits
    BY <1>1
  <2>5. ReadsStand' /\ edits' \in [DOMAIN edits' -> Edits]
    BY <2>1, <2>3, <2>4, OvertakeOK DEF ReadsStand
  <2> QED
    BY <1>2, <2>1, <2>3, <2>5, BoundsAssumption DEF Types
<1> QED
  BY <1>3, <1>4

LEMMA DeleteOK ==
    ASSUME Types, ReadsStand, NEW i \in Ids, DeletePost(i)
    PROVE  Types' /\ ReadsStand'
<1>1. /\ posts' = Restrict(posts, DOMAIN posts \ {i}) /\ edits' = Overtake(i, DOMAIN edits)
      /\ UNCHANGED <<used, replica, link, now>> /\ writes' \in 0 .. MaxWrites
  BY BoundsAssumption DEF DeletePost, Commit, Types
<1>2. /\ DOMAIN posts' = DOMAIN posts \ {i} /\ posts' \in [DOMAIN posts' -> Rows]
      /\ \A j \in DOMAIN posts' : posts'[j] = posts[j]
  BY <1>1 DEF Restrict, Types
<1>3. ReadsStand' /\ edits' \in [DOMAIN edits' -> Edits]
  BY <1>1, <1>2, OvertakeOK DEF ReadsStand
<1> QED
  BY <1>1, <1>2, <1>3 DEF Types

LEMMA TypesNext == Types /\ ReadsStand /\ [Next]_vars => Types' /\ ReadsStand'
<1> SUFFICES ASSUME Types, ReadsStand, [Next]_vars PROVE Types' /\ ReadsStand'
  OBVIOUS
<1>1. CASE UNCHANGED vars
  BY <1>1 DEF vars, Types, ReadsStand
<1>2. ASSUME NEW i \in Ids, NEW s \in Slugs, NEW t \in Topics, NEW st \in Statuses,
             CreatePost(i, s, t, st)
      PROVE  Types' /\ ReadsStand'
  BY <1>2, CreateOK
<1>3. ASSUME NEW e \in Editors, NEW i \in Ids, NEW b \in Bodies, ReadForUpdate(e, i, b)
      PROVE  Types' /\ ReadsStand'
  BY <1>3, ReadOK
<1>4. ASSUME NEW e \in Editors, UpdatePost(e) PROVE Types' /\ ReadsStand'
  BY <1>4, UpdateOK
<1>5. ASSUME NEW i \in Ids, DeletePost(i) PROVE Types' /\ ReadsStand'
  BY <1>5, DeleteOK
<1>6. ASSUME NEW i \in Ids, IssueLink(i) PROVE Types' /\ ReadsStand'
  <2>1. UNCHANGED <<posts, replica, used, edits, now, writes>> /\ link' = [sub |-> i, exp |-> now + PreviewTtl]
    BY <1>6 DEF IssueLink
  <2>2. i \in Nat /\ now + PreviewTtl \in Nat
    BY IdsAssumption, BoundsAssumption DEF Types
  <2> QED
    BY <2>1, <2>2 DEF Types, ReadsStand
<1>7. CASE Replicate
  BY <1>7 DEF Replicate, Types, ReadsStand
<1>8. CASE Tick
  BY <1>8, BoundsAssumption DEF Tick, Types, ReadsStand
<1> QED
  BY <1>1, <1>2, <1>3, <1>4, <1>5, <1>6, <1>7, <1>8 DEF Next

-----------------------------------------------------------------------------
(* Every row of either copy has a date when it is published and only then,   *)
(* whatever the order of writes to one post.                                *)
THEOREM TypeCorrectness == Spec => []TypeOK
<1>1. Types => TypeOK
  BY DEF Types, TypeOK, Edits
<1> QED
  BY <1>1, TypesInit, TypesNext, PTL DEF Spec

(* What a PATCH does to the post it is at. *)
LEMMA PatchKeeps ==
    ASSUME Types, ReadsStand, [Next]_vars, NEW e \in DOMAIN edits, NEW i, i = edits[e].id,
           e \notin DOMAIN edits', i \in DOMAIN posts \intersect DOMAIN posts'
    PROVE  /\ ~edits[e].overtaken =>
                \A f \in {"slug", "topic", "status"} \ DOMAIN edits[e].body : posts'[i][f] = posts[i][f]
           /\ posts[i].status = "published" /\ posts'[i].status = "published" =>
                posts'[i].at = posts[i].at
<1>1. UpdatePost(e)
  <2>1. UNCHANGED edits => FALSE
    OBVIOUS
  <2>2. ASSUME NEW j, edits' = Overtake(j, DOMAIN edits) PROVE FALSE
    BY <2>2 DEF Overtake
  <2>3. ASSUME NEW c \in Editors, NEW j \in Ids, NEW b \in Bodies, ReadForUpdate(c, j, b) PROVE FALSE
    <3>1. edits' = With(edits, c, [id |-> j, body |-> b, base |-> MergeBase[j], overtaken |-> FALSE])
      BY <2>3 DEF ReadForUpdate
    <3> QED
      BY <3>1 DEF With
  <2>4. ASSUME NEW c \in Editors, UpdatePost(c), c # e PROVE FALSE
    BY <2>4 DEF UpdatePost, Overtake, Restrict
  <2> QED
    BY <2>1, <2>2, <2>3, <2>4 DEF Next, CreatePost, DeletePost, IssueLink, Replicate, Tick, vars
<1>2. CASE UNCHANGED posts
  BY <1>2
<1>3. CASE posts' # posts
  <2>1. posts' = [posts EXCEPT ![i] = Written(e)]
    BY <1>1, <1>3 DEF UpdatePost, Commit, Written
  <2>2. posts'[i] = Written(e)
    BY <2>1
  <2>3. ~edits[e].overtaken => posts[i] = edits[e].base
    BY DEF ReadsStand
  <2> QED
    BY <2>2, <2>3, WrittenIs
<1> QED
  BY <1>2, <1>3

(* merge_input(), COALESCE(published_at, now()): unless another write of the *)
(* post came between, a PATCH keeps every field it does not name, and a post *)
(* that stays published keeps its date in any case.                         *)
THEOREM PatchesKeepTheRest == Spec => KeepsOmitted
<1>1. Types /\ ReadsStand /\ [Next]_vars => 
        [\A e \in DOMAIN edits :
          LET i == edits[e].id
          IN  /\ e \notin DOMAIN edits'
              /\ i \in DOMAIN posts \intersect DOMAIN posts'
              => /\ ~edits[e].overtaken =>
                      \A f \in {"slug", "topic", "status"} \ DOMAIN edits[e].body :
                          posts'[i][f] = posts[i][f]
                 /\ posts[i].status = "published" /\ posts'[i].status = "published" =>
                      posts'[i].at = posts[i].at]_vars
  BY PatchKeeps
<1> QED
  BY <1>1, TypesInit, TypesNext, PTL DEF Spec, KeepsOmitted

-----------------------------------------------------------------------------
(* Two posts are neighbours of each other, or neither is of the other. *)
NeighboursAgree ==
    \A rows \in {posts, replica} : \A i, j \in Published(rows) :
        j \in Older(rows, i) <=> i \in Newer(rows, j)
(* The number on a chip is the number of posts that picking it selects. *)
ChipsAgree ==
    \A rows \in {posts, replica} : \A n \in DOMAIN Facets(rows, "") :
        Facets(rows, "")[n] = Cardinality(Selected(rows, n))

(* The published rows are totally ordered: they have dates, ids break ties. *)
LEMMA RowsOrdered ==
    ASSUME NEW D \in SUBSET Ids, NEW rows \in [D -> Rows], NEW i \in Published(rows), NEW j \in Published(rows)
    PROVE  /\ i # j => RowAbove(rows, i, j) \/ RowAbove(rows, j, i)
           /\ ~(RowAbove(rows, i, j) /\ RowAbove(rows, j, i))
<1>1. /\ i \in Nat /\ j \in Nat
      /\ rows[i].at \in Nat \ {0} /\ rows[j].at \in Nat \ {0}
  BY IdsAssumption, BoundsAssumption DEF Published, Rows
<1>2. PICK a, b : a = rows[i].at /\ b = rows[j].at
  OBVIOUS
<1> QED
  BY <1>1, <1>2 DEF RowAbove

LEMMA NeighboursMirror ==
    ASSUME NEW D \in SUBSET Ids, NEW rows \in [D -> Rows], NEW i \in Published(rows), NEW j \in Published(rows)
    PROVE  j \in Older(rows, i) <=> i \in Newer(rows, j)
<1>1. ASSUME NEW a \in Published(rows), NEW b \in Published(rows)
      PROVE  /\ a # b => RowAbove(rows, a, b) \/ RowAbove(rows, b, a)
             /\ ~(RowAbove(rows, a, b) /\ RowAbove(rows, b, a))
  BY RowsOrdered
<1>2. j \in Older(rows, i) <=>
        /\ RowAbove(rows, i, j)
        /\ \A k \in Published(rows) : RowAbove(rows, i, k) /\ k # j => RowAbove(rows, j, k)
  BY DEF Older
<1>3. i \in Newer(rows, j) <=>
        /\ RowAbove(rows, i, j)
        /\ \A k \in Published(rows) : RowAbove(rows, k, j) /\ k # i => RowAbove(rows, k, i)
  BY DEF Newer
<1> QED
  BY <1>1, <1>2, <1>3

LEMMA ChipsCount ==
    ASSUME NEW rows, NEW n \in DOMAIN Facets(rows, "")
    PROVE  Facets(rows, "")[n] = Cardinality(Selected(rows, n))
<1>1. n # ""
  BY DEF Facets, FacetName
<1>2. {i \in Selected(rows, "") : FacetName(rows[i]) = n} = Selected(rows, n)
  BY <1>1 DEF Selected, Matches, FacetName
<1> QED
  BY <1>2 DEF Facets

(* public_where, facets, find_adjacent: what the parts of the public site    *)
(* say about one copy of the table agrees, for tables of any size.          *)
THEOREM ChipsAndNeighboursAgree == Spec => [](NeighboursAgree /\ ChipsAgree)
<1>1. ChipsAgree
  BY ChipsCount DEF ChipsAgree
<1>2. Types => NeighboursAgree
  <2> SUFFICES ASSUME Types, NEW rows \in {posts, replica}, NEW i \in Published(rows), NEW j \in Published(rows)
               PROVE  j \in Older(rows, i) <=> i \in Newer(rows, j)
    BY DEF NeighboursAgree
  <2>1. rows \in [DOMAIN rows -> Rows] /\ DOMAIN rows \in SUBSET Ids
    BY DEF Types
  <2> QED
    BY <2>1, NeighboursMirror
<1> QED
  BY <1>1, <1>2, TypesInit, TypesNext, PTL DEF Spec

-----------------------------------------------------------------------------
(* The feed: ORDER BY over a total order enumerates what was selected.      *)

(* A finite set that R orders totally has an enumeration in that order: each *)
(* element stands behind as many as R puts before it.                       *)
LEMMA OrderEnumerates ==
    ASSUME NEW S, IsFiniteSet(S), NEW R,
           \A i, j \in S : i # j => <<i, j>> \in R \/ <<j, i>> \in R,
           \A i, j \in S : ~(<<i, j>> \in R /\ <<j, i>> \in R),
           \A i, j, k \in S : <<i, j>> \in R /\ <<j, k>> \in R => <<i, k>> \in R
    PROVE  \E f \in [1 .. Cardinality(S) -> S] :
               \A k, l \in 1 .. Cardinality(S) : k < l => <<f[k], f[l]>> \in R
<1> DEFINE n == Cardinality(S)
           Before(i) == {j \in S : <<j, i>> \in R}
           rank == [i \in S |-> Cardinality(Before(i)) + 1]
<1>1. n \in Nat
  BY FS_CardinalityType
<1>2. ASSUME NEW i \in S
      PROVE  IsFiniteSet(Before(i)) /\ Cardinality(Before(i)) \in Nat /\ Cardinality(Before(i)) <= n - 1
  <2>1. Before(i) \in SUBSET (S \ {i})
    OBVIOUS
  <2>2. IsFiniteSet(S \ {i}) /\ Cardinality(S \ {i}) = n - 1
    BY FS_RemoveElement
  <2> HIDE DEF Before
  <2>3. IsFiniteSet(Before(i)) /\ Cardinality(Before(i)) <= n - 1
    BY <2>1, <2>2, FS_Subset
  <2> QED
    BY <2>3, FS_CardinalityType
<1>3. ASSUME NEW i \in S, NEW j \in S, <<j, i>> \in R PROVE rank[j] < rank[i]
  <2>1. Before(j) \in SUBSET Before(i)
    BY <1>3
  <2>2. j \in Before(i) /\ j \notin Before(j)
    BY <1>3
  <2>3. IsFiniteSet(Before(i)) /\ Cardinality(Before(i)) \in Nat /\ Cardinality(Before(j)) \in Nat
    BY <1>2
  <2>4. Cardinality(Before(j)) <= Cardinality(Before(i)) /\ Cardinality(Before(i)) # Cardinality(Before(j))
    BY <2>1, <2>2, <2>3, FS_Subset
  <2> QED
    BY <2>3, <2>4
<1>4. rank \in [S -> 1 .. n]
  BY <1>1, <1>2
<1> HIDE DEF rank
<1>5. ASSUME NEW i \in S, NEW j \in S, rank[i] = rank[j] PROVE i = j
  <2>1. rank[i] \in Nat /\ ~(rank[i] < rank[j]) /\ ~(rank[j] < rank[i])
    BY <1>1, <1>4, <1>5
  <2> QED
    BY <1>3, <2>1
<1>6. \A k \in 1 .. n : \E i \in S : rank[i] = k
  <2>1. rank \in Injection(S, 1 .. n)
    BY <1>4, <1>5 DEF Injection, IsInjective
  <2>2. IsFiniteSet(1 .. n) /\ Cardinality(1 .. n) = n
    BY <1>1, FS_Interval
  <2>3. rank \in Surjection(S, 1 .. n)
    BY <2>1, <2>2, FS_Injection
  <2> QED
    BY <2>3 DEF Surjection
<1>7. PICK f \in [1 .. n -> S] : \A k \in 1 .. n : rank[f[k]] = k
  <2>1. [k \in 1 .. n |-> CHOOSE i \in S : rank[i] = k] \in [1 .. n -> S]
    BY <1>6
  <2> QED
    BY <1>6, <2>1
<1>8. ASSUME NEW k \in 1 .. n, NEW l \in 1 .. n, k < l PROVE <<f[k], f[l]>> \in R
  <2>1. f[k] \in S /\ f[l] \in S /\ rank[f[k]] = k /\ rank[f[l]] = l
    BY <1>7
  <2>2. f[k] # f[l] /\ ~(rank[f[l]] < rank[f[k]])
    BY <1>1, <1>8, <2>1
  <2> QED
    BY <1>3, <2>1, <2>2
<1> QED
  BY <1>7, <1>8

LEMMA PrecedenceOrders ==
    ASSUME NEW D \in SUBSET Ids, NEW rows \in [D -> Rows]
    PROVE  /\ \A i, j \in D : i # j => Precedes(rows, i, j) \/ Precedes(rows, j, i)
           /\ \A i, j \in D : ~(Precedes(rows, i, j) /\ Precedes(rows, j, i))
           /\ \A i, j, k \in D : Precedes(rows, i, j) /\ Precedes(rows, j, k) => Precedes(rows, i, k)
<1>1. \A i \in D : i \in Nat /\ rows[i].at \in Nat
  BY IdsAssumption, BoundsAssumption DEF Rows
<1>2. PICK a : a = [i \in D |-> rows[i].at]
  OBVIOUS
<1>3. \A i \in D : rows[i].at = a[i] /\ a[i] \in Nat
  BY <1>1, <1>2
<1> QED
  BY <1>1, <1>3 DEF Precedes

(* The feed lists every selected post, once, and each above the next ones.  *)
LEMMA FeedLists ==
    ASSUME NEW D \in SUBSET Ids, NEW rows \in [D -> Rows], NEW t
    PROVE  /\ Selected(rows, t) \subseteq D /\ Cardinality(Selected(rows, t)) \in Nat
           /\ Feed(rows, t) \in [1 .. Cardinality(Selected(rows, t)) -> Selected(rows, t)]
           /\ \A k, l \in 1 .. Cardinality(Selected(rows, t)) :
                  k < l => Precedes(rows, Feed(rows, t)[k], Feed(rows, t)[l])
           /\ \A i \in Selected(rows, t) :
                  \E k \in 1 .. Cardinality(Selected(rows, t)) : Feed(rows, t)[k] = i
<1> DEFINE S == Selected(rows, t)
           n == Cardinality(S)
           R == {ij \in S \X S : Precedes(rows, ij[1], ij[2])}
<1>1. S \subseteq D
  BY DEF Selected, Published
<1>2. IsFiniteSet(S) /\ n \in Nat
  BY <1>1, IdsAssumption, FS_Subset, FS_CardinalityType
<1>3. \A i, j \in S : <<i, j>> \in R <=> Precedes(rows, i, j)
  OBVIOUS
<1>4. /\ \A i, j \in S : i # j => <<i, j>> \in R \/ <<j, i>> \in R
      /\ \A i, j \in S : ~(<<i, j>> \in R /\ <<j, i>> \in R)
      /\ \A i, j, k \in S : <<i, j>> \in R /\ <<j, k>> \in R => <<i, k>> \in R
  <2> HIDE DEF R
  <2>1. /\ \A i, j \in S : i # j => Precedes(rows, i, j) \/ Precedes(rows, j, i)
        /\ \A i, j \in S : ~(Precedes(rows, i, j) /\ Precedes(rows, j, i))
        /\ \A i, j, k \in S : Precedes(rows, i, j) /\ Precedes(rows, j, k) => Precedes(rows, i, k)
    BY <1>1, PrecedenceOrders
  <2> HIDE DEF S
  <2> QED
    BY <1>3, <2>1
<1>5. \E f \in [1 .. n -> S] : \A k, l \in 1 .. n : k < l => Precedes(rows, f[k], f[l])
  <2> HIDE DEF R
  <2>1. PICK f \in [1 .. n -> S] : \A k, l \in 1 .. n : k < l => <<f[k], f[l]>> \in R
    BY <1>2, <1>4, OrderEnumerates
  <2>2. \A k \in 1 .. n : f[k] \in S
    OBVIOUS
  <2> QED
    BY <1>3, <2>1, <2>2
<1>6. PICK f : f = Feed(rows, t)
  OBVIOUS
<1>7. f \in [1 .. n -> S] /\ \A k, l \in 1 .. n : k < l => Precedes(rows, f[k], f[l])
  <2>1. f = CHOOSE g \in [1 .. n -> S] : \A k, l \in DOMAIN g : k < l => Precedes(rows, g[k], g[l])
    BY <1>6 DEF Feed
  <2>2. \E g \in [1 .. n -> S] : \A k, l \in DOMAIN g : k < l => Precedes(rows, g[k], g[l])
    BY <1>5
  <2>3. f \in [1 .. n -> S] /\ \A k, l \in DOMAIN f : k < l => Precedes(rows, f[k], f[l])
    BY <2>1, <2>2
  <2> QED
    BY <2>3
<1>8. f \in Surjection(1 .. n, S)
  <2>1. ASSUME NEW k \in 1 .. n, NEW l \in 1 .. n, f[k] = f[l] PROVE k = l
    <3>1. \A i \in S : ~Precedes(rows, i, i)
      BY <1>1, PrecedenceOrders
    <3>2. f[k] \in S /\ k \in Int /\ l \in Int
      BY <1>2, <1>7
    <3>3. ~(k < l) /\ ~(l < k)
      BY <1>7, <2>1, <3>1, <3>2
    <3> QED
      BY <3>2, <3>3
  <2>2. f \in Injection(1 .. n, S)
    BY <1>7, <2>1 DEF Injection, IsInjective
  <2>3. IsFiniteSet(1 .. n) /\ Cardinality(1 .. n) = n
    BY <1>2, FS_Interval
  <2> QED
    BY <1>2, <2>2, <2>3, FS_Injection
<1> QED
  BY <1>1, <1>2, <1>6, <1>7, <1>8 DEF Surjection

(* Precedes is what find_adjacent compares, for published posts, and those  *)
(* have dates.                                                              *)
LEMMA PublishedAbove ==
    ASSUME NEW D \in SUBSET Ids, NEW rows \in [D -> Rows], NEW i \in Published(rows), NEW j \in Published(rows)
    PROVE  RowAbove(rows, i, j) <=> Precedes(rows, i, j)
  BY DEF Published, Rows, RowAbove, Precedes

LEMMA NumbersOrdered ==
    ASSUME NEW n \in Nat, NEW a \in 1 .. n, NEW b \in 1 .. n
    PROVE  (a < b \/ b < a \/ a = b) /\ ~(a < b /\ b < a) /\ ~(a < a)
  OBVIOUS

LEMMA NextNumber ==
    ASSUME NEW n \in Nat, NEW k \in 1 .. n, NEW l \in 1 .. n
    PROVE  /\ (k < l /\ \A m \in 1 .. n : k < m /\ m # l => l < m) <=> l = k + 1
           /\ (l < k /\ \A m \in 1 .. n : m < k /\ m # l => m < l) <=> l = k - 1
<1>1. ASSUME k < l, \A m \in 1 .. n : k < m /\ m # l => l < m PROVE l = k + 1
  <2>1. k + 1 \in 1 .. n /\ k < k + 1
    BY <1>1
  <2>2. k + 1 # l => l < k + 1
    BY <1>1, <2>1
  <2> QED
    BY <1>1, <2>2
<1>2. ASSUME l < k, \A m \in 1 .. n : m < k /\ m # l => m < l PROVE l = k - 1
  <2>1. k - 1 \in 1 .. n /\ k - 1 < k
    BY <1>2
  <2>2. k - 1 # l => k - 1 < l
    BY <1>2, <2>1
  <2> QED
    BY <1>2, <2>2
<1>3. /\ l = k + 1 => k < l /\ \A m \in 1 .. n : k < m /\ m # l => l < m
      /\ l = k - 1 => l < k /\ \A m \in 1 .. n : m < k /\ m # l => m < l
  OBVIOUS
<1> QED
  BY <1>1, <1>2, <1>3

(* What stands next to a post in the feed is what find_adjacent finds.      *)
Enumerates(feed, n, rows) ==
    /\ feed \in [1 .. n -> Published(rows)]
    /\ \A i, j \in 1 .. n : i < j => Precedes(rows, feed[i], feed[j])
    /\ \A i \in Published(rows) : \E j \in 1 .. n : feed[j] = i

NextInFeed(feed, n, rows, k) ==
    /\ \A i : i \in Older(rows, feed[k]) <=> k + 1 \in 1 .. n /\ i = feed[k + 1]
    /\ \A i : i \in Newer(rows, feed[k]) <=> k - 1 \in 1 .. n /\ i = feed[k - 1]

LEMMA FeedNeighbours ==
    ASSUME NEW D \in SUBSET Ids, NEW rows \in [D -> Rows],
           NEW n \in Nat, NEW feed, Enumerates(feed, n, rows), NEW k \in 1 .. n
    PROVE  NextInFeed(feed, n, rows, k)
<1>1. /\ n \in Nat /\ DOMAIN feed = 1 .. n /\ k \in 1 .. n
      /\ \A l \in 1 .. n : feed[l] \in Published(rows)
      /\ \A i \in Published(rows) : \E l \in 1 .. n : feed[l] = i
  BY DEF Enumerates
<1>2. \A a, b \in 1 .. n : (a < b \/ b < a \/ a = b) /\ ~(a < b /\ b < a) /\ ~(a < a)
  BY NumbersOrdered
<1>3. ASSUME NEW l \in 1 .. n, NEW m \in 1 .. n
      PROVE  RowAbove(rows, feed[l], feed[m]) <=> l < m
  <2>1. \A a, b \in 1 .. n : a < b => Precedes(rows, feed[a], feed[b])
    BY DEF Enumerates
  <2>2. \A a, b \in Published(rows) : ~(RowAbove(rows, a, b) /\ RowAbove(rows, b, a))
    BY RowsOrdered
  <2>3. \A a, b \in 1 .. n : a < b => RowAbove(rows, feed[a], feed[b])
    BY <1>1, <2>1, PublishedAbove
  <2>4. (l < m \/ m < l \/ l = m) /\ ~(l < m /\ m < l) /\ (l = m => ~(l < m))
    BY <1>2
  <2>5. feed[l] \in Published(rows) /\ feed[m] \in Published(rows)
    BY <1>1
  <2> QED
    BY <2>2, <2>3, <2>4, <2>5
<1>4. ASSUME NEW i \in Published(rows)
      PROVE  i \in Older(rows, feed[k]) <=> k + 1 \in 1 .. n /\ i = feed[k + 1]
  <2>1. PICK l \in 1 .. n : feed[l] = i
    BY <1>1
  <2>2. i \in Older(rows, feed[k]) <=>
            /\ RowAbove(rows, feed[k], feed[l])
            /\ \A j \in Published(rows) : RowAbove(rows, feed[k], j) /\ j # feed[l] => RowAbove(rows, feed[l], j)
    BY <2>1 DEF Older
  <2>3. i \in Older(rows, feed[k]) <=>
            k < l /\ \A m \in 1 .. n : k < m /\ feed[m] # feed[l] => l < m
    <3>1. RowAbove(rows, feed[k], feed[l]) <=> k < l
      BY <1>1, <1>3
    <3>2. (\A j \in Published(rows) : RowAbove(rows, feed[k], j) /\ j # feed[l] => RowAbove(rows, feed[l], j))
          <=> \A m \in 1 .. n : k < m /\ feed[m] # feed[l] => l < m
      <4>1. \A m \in 1 .. n : /\ RowAbove(rows, feed[k], feed[m]) <=> k < m
                              /\ RowAbove(rows, feed[l], feed[m]) <=> l < m
        BY <1>1, <1>3
      <4> QED
        BY <1>1, <4>1
    <3> QED
      BY <2>2, <3>1, <3>2
  <2>4. \A m \in 1 .. n : feed[m] = feed[l] <=> m = l
    <3>1. \A m \in 1 .. n : (RowAbove(rows, feed[m], feed[l]) <=> m < l)
                         /\ (RowAbove(rows, feed[l], feed[m]) <=> l < m)
                         /\ (RowAbove(rows, feed[l], feed[l]) <=> l < l)
      BY <1>3
    <3> QED
      BY <1>2, <3>1
  <2>5. (k < l /\ \A m \in 1 .. n : k < m /\ m # l => l < m) <=> l = k + 1
    BY <1>1, NextNumber
  <2>6. k + 1 \in 1 .. n => (i = feed[k + 1] <=> l = k + 1)
    BY <2>1, <2>4
  <2> QED
    BY <2>3, <2>4, <2>5, <2>6
<1>5. ASSUME NEW i \in Published(rows)
      PROVE  i \in Newer(rows, feed[k]) <=> k - 1 \in 1 .. n /\ i = feed[k - 1]
  <2>1. PICK l \in 1 .. n : feed[l] = i
    BY <1>1
  <2>2. i \in Newer(rows, feed[k]) <=>
            /\ RowAbove(rows, feed[l], feed[k])
            /\ \A j \in Published(rows) : RowAbove(rows, j, feed[k]) /\ j # feed[l] => RowAbove(rows, j, feed[l])
    BY <2>1 DEF Newer
  <2>3. i \in Newer(rows, feed[k]) <=>
            l < k /\ \A m \in 1 .. n : m < k /\ feed[m] # feed[l] => m < l
    <3>1. RowAbove(rows, feed[l], feed[k]) <=> l < k
      BY <1>1, <1>3
    <3>2. (\A j \in Published(rows) : RowAbove(rows, j, feed[k]) /\ j # feed[l] => RowAbove(rows, j, feed[l]))
          <=> \A m \in 1 .. n : m < k /\ feed[m] # feed[l] => m < l
      <4>1. \A m \in 1 .. n : /\ RowAbove(rows, feed[m], feed[k]) <=> m < k
                              /\ RowAbove(rows, feed[m], feed[l]) <=> m < l
        BY <1>1, <1>3
      <4> QED
        BY <1>1, <4>1
    <3> QED
      BY <2>2, <3>1, <3>2
  <2>4. \A m \in 1 .. n : feed[m] = feed[l] <=> m = l
    <3>1. \A m \in 1 .. n : (RowAbove(rows, feed[m], feed[l]) <=> m < l)
                         /\ (RowAbove(rows, feed[l], feed[m]) <=> l < m)
                         /\ (RowAbove(rows, feed[l], feed[l]) <=> l < l)
      BY <1>3
    <3> QED
      BY <1>2, <3>1
  <2>5. (l < k /\ \A m \in 1 .. n : m < k /\ m # l => m < l) <=> l = k - 1
    BY <1>1, NextNumber
  <2>6. k - 1 \in 1 .. n => (i = feed[k - 1] <=> l = k - 1)
    BY <2>1, <2>4
  <2> QED
    BY <2>3, <2>4, <2>5, <2>6
<1>6. Older(rows, feed[k]) \subseteq Published(rows) /\ Newer(rows, feed[k]) \subseteq Published(rows)
  BY DEF Older, Newer
<1> QED
  BY <1>1, <1>4, <1>5, <1>6 DEF NextInFeed

-----------------------------------------------------------------------------
(* slug is UNIQUE: a slug names one row at most. *)
SlugsUnique == \A i, j \in DOMAIN posts : posts[i].slug = posts[j].slug => i = j

LEMMA SlugsStayUnique == Types /\ SlugsUnique /\ [Next]_vars => SlugsUnique'
<1> SUFFICES ASSUME Types, SlugsUnique, [Next]_vars PROVE SlugsUnique'
  OBVIOUS
<1>1. ASSUME NEW i \in Ids, NEW s \in Slugs, NEW t \in Topics, NEW st \in Statuses, CreatePost(i, s, t, st)
      PROVE  SlugsUnique'
  <2>1. PICK row : row = NewRow(s, t, st)
    OBVIOUS
  <2>2. posts' = With(posts, i, row) /\ row.slug = s /\ ~Taken(s, i)
    BY <1>1, <2>1 DEF CreatePost, Commit, NewRow
  <2>3. /\ DOMAIN posts' = DOMAIN posts \cup {i} /\ posts'[i] = row
        /\ \A j \in DOMAIN posts \ {i} : posts'[j] = posts[j] /\ posts[j].slug # s
    BY <2>2 DEF With, Taken
  <2> QED
    BY <2>2, <2>3 DEF SlugsUnique
<1>2. ASSUME NEW e \in Editors, UpdatePost(e) PROVE SlugsUnique'
  <2>1. PICK i, in : i = edits[e].id /\ in = Merged(edits[e].body, edits[e].base)
    OBVIOUS
  <2>2. CASE UNCHANGED posts
    BY <2>2 DEF SlugsUnique
  <2>3. CASE /\ i \in DOMAIN posts /\ ~Taken(in.slug, i)
             /\ posts' = [posts EXCEPT ![i] = [in EXCEPT !.at = PublishedAt(posts[i], in.status)]]
    <3>1. edits[e].base \in Rows /\ edits[e].body \in Bodies
      BY <1>2 DEF UpdatePost, Types, Edits
    <3>2. in \in [slug : Slugs, topic : Topics, status : Statuses, at : 0 .. MaxTime]
      BY <2>1, <3>1, MergedIs
    <3>3. [in EXCEPT !.at = PublishedAt(posts[i], in.status)].slug = in.slug
      BY <3>2
    <3>4. /\ DOMAIN posts' = DOMAIN posts /\ posts'[i].slug = in.slug
          /\ \A j \in DOMAIN posts \ {i} : posts'[j] = posts[j] /\ posts[j].slug # in.slug
      BY <2>3, <3>3 DEF Taken, Types
    <3> QED
      BY <3>4 DEF SlugsUnique
  <2> QED
    BY <1>2, <2>1, <2>2, <2>3 DEF UpdatePost, Commit
<1>3. ASSUME NEW i \in Ids, DeletePost(i) PROVE SlugsUnique'
  <2>1. posts' = [j \in DOMAIN posts \ {i} |-> posts[j]]
    BY <1>3 DEF DeletePost, Commit, Restrict
  <2> QED
    BY <2>1 DEF SlugsUnique
<1>4. ASSUME UNCHANGED posts PROVE SlugsUnique'
  BY <1>4 DEF SlugsUnique
<1> QED
  BY <1>1, <1>2, <1>3, <1>4 DEF Next, ReadForUpdate, IssueLink, Replicate, Tick, vars

(* The public page of a published post's slug shows that post, whatever     *)
(* preview link the reader has.                                             *)
LEMMA SlugShows ==
    ASSUME Types, SlugsUnique, NEW i \in Published(posts), NEW lk
    PROVE  Resolve(posts, posts[i].slug, lk) = {i}
  BY DEF SlugsUnique, Resolve, BySlug, Published

-----------------------------------------------------------------------------
(* The pages of a list, one after the other, are the list.                  *)
LEMMA LeastNatural ==
    ASSUME NEW T, T \subseteq Nat, T # {}
    PROVE  \E n \in T : \A m \in T : n <= m
<1>1. \E n \in T : \A m \in T : <<m, n>> \notin OpToRel(<, Nat)
  BY NatLessThanWellFounded, WFMin
<1>2. PICK n \in T : \A m \in T : <<m, n>> \notin OpToRel(<, Nat)
  BY <1>1
<1>3. \A m \in T : ~(m < n)
  BY <1>2 DEF OpToRel
<1> QED
  BY <1>3

LEMMA MinOfTwo ==
    ASSUME NEW a \in Nat, NEW b \in Nat
    PROVE  Min({a, b}) = IF a <= b THEN a ELSE b
<1>1. PICK m : m = Min({a, b})
  OBVIOUS
<1>2. \E x \in {a, b} : \A y \in {a, b} : x <= y
  OBVIOUS
<1>3. m \in {a, b} /\ \A y \in {a, b} : m <= y
  BY <1>1, <1>2 DEF Min
<1> QED
  BY <1>1, <1>3

LEMMA PageBounds ==
    ASSUME NEW limit \in Nat \ {0}, NEW i \in Nat \ {0}
    PROVE  /\ i * limit \in Nat /\ (i - 1) * limit \in Nat /\ i * limit = (i - 1) * limit + limit
           /\ i * limit >= i
<1>1. i * limit \in Nat /\ (i - 1) * limit \in Nat /\ i * limit = (i - 1) * limit + limit
  OBVIOUS
<1>2. i * limit = i + i * (limit - 1) /\ i * (limit - 1) \in Nat
  OBVIOUS
<1> QED
  BY <1>1, <1>2

(* What a query with LIMIT and OFFSET returns of a sorted list, page by page. *)
PageOf(list, limit, p) == SubSeq(list, (p - 1) * limit + 1, Min({p * limit, Len(list)}))

LEMMA PagesJoin ==
    ASSUME NEW S, NEW list \in Seq(S), NEW limit \in Nat \ {0}, NEW i \in Nat \ {0, 1}
    PROVE  SubSeq(list, 1, Min({i * limit, Len(list)})) =
               SubSeq(list, 1, Min({(i - 1) * limit, Len(list)})) \o PageOf(list, limit, i)
<1>1. PICK a, b : a = (i - 1) * limit /\ b = i * limit
  OBVIOUS
<1>2. a \in Nat /\ b \in Nat /\ a <= b /\ Len(list) \in Nat
  BY <1>1, PageBounds
<1>3. PICK c : c = Min({b, Len(list)})
  OBVIOUS
<1>4. c = (IF b <= Len(list) THEN b ELSE Len(list)) /\ c \in Nat
  BY <1>2, <1>3, MinOfTwo
<1>5. CASE a <= Len(list)
  <2>1. Min({a, Len(list)}) = a
    BY <1>2, <1>5, MinOfTwo
  <2>2. 1 \in 1 .. Len(list) + 1 /\ a \in 1 - 1 .. Len(list) /\ c \in a .. Len(list)
    BY <1>2, <1>4, <1>5
  <2>3. SubSeq(list, 1, a) \o SubSeq(list, a + 1, c) = SubSeq(list, 1, c)
    BY <2>2, ConcatAdjacentSubSeq
  <2> QED
    BY <1>1, <1>3, <2>1, <2>3 DEF PageOf
<1>6. CASE a > Len(list)
  <2>1. Min({a, Len(list)}) = Len(list) /\ c = Len(list)
    BY <1>2, <1>4, <1>6, MinOfTwo
  <2>2. SubSeq(list, a + 1, c) = <<>>
    BY <1>2, <1>6, <2>1, SubSeqEmpty
  <2>3. SubSeq(list, 1, Len(list)) = list /\ list \o <<>> = list
    BY SubSeqFull, ConcatProperties
  <2> QED
    BY <1>1, <1>3, <2>1, <2>2, <2>3 DEF PageOf
<1>7. a <= Len(list) \/ a > Len(list)
  BY <1>2
<1> QED
  BY <1>5, <1>6, <1>7

LEMMA PagesFlatten ==
    ASSUME NEW S, NEW list \in Seq(S), NEW limit \in Nat \ {0}
    PROVE  FlattenSeq([p \in 1 .. Len(list) |-> PageOf(list, limit, p)]) = list
<1> DEFINE n == Len(list)
           pages == [p \in 1 .. n |-> PageOf(list, limit, p)]
           Upto(i) == SubSeq(list, 1, Min({i * limit, n}))
           Step(f) == [i \in 1 .. n |-> IF i = 1 THEN pages[i] ELSE f[i - 1] \o pages[i]]
<1>1. n \in Nat /\ Len(pages) = n
  BY LenProperties
<1>2. CASE n = 0
  <2>1. list = <<>> /\ pages = <<>>
    BY <1>2, EmptySeq
  <2> QED
    BY <1>1, <1>2, <2>1 DEF FlattenSeq
<1>3. CASE n # 0
  <2>1. n \in Nat \ {0}
    BY <1>1, <1>3
  <2>2. pages[1] = Upto(1)
    <3>1. (1 - 1) * limit + 1 = 1
      OBVIOUS
    <3>2. pages[1] = PageOf(list, limit, 1)
      BY <2>1
    <3> HIDE DEF pages
    <3> QED
      BY <3>1, <3>2 DEF PageOf
  <2>3. ASSUME NEW i \in 2 .. n PROVE Upto(i) = Upto(i - 1) \o pages[i]
    <3>1. i \in Nat \ {0, 1} /\ pages[i] = PageOf(list, limit, i)
      BY <2>1
    <3> HIDE DEF pages
    <3> QED
      BY <3>1, PagesJoin
  <2>4. Upto(n) = list
    <3>1. n * limit >= n /\ n * limit \in Nat
      BY <2>1, PageBounds
    <3>2. Min({n * limit, n}) = n
      BY <2>1, <3>1, MinOfTwo
    <3> QED
      BY <3>2, SubSeqFull
  <2> HIDE DEF pages, Upto, n
  <2>5. PICK f : f = CHOOSE g : g = Step(g)
    OBVIOUS
  <2>6. f = Step(f)
    <3>1. PICK h : h = [i \in 1 .. n |-> Upto(i)]
      OBVIOUS
    <3>2. ASSUME NEW i \in 1 .. n PROVE h[i] = Step(h)[i]
      <4>1. CASE i = 1
        BY <2>2, <3>1, <4>1
      <4>2. CASE i # 1
        <5>1. i \in 2 .. n /\ i - 1 \in 1 .. n
          BY <2>1, <4>2
        <5> QED
          BY <2>3, <3>1, <4>2, <5>1
      <4> QED
        BY <4>1, <4>2
    <3>3. h = Step(h)
      BY <3>1, <3>2
    <3> QED
      BY <2>5, <3>3
  <2>7. ASSUME NEW k \in 1 .. n, f[k] # Upto(k) PROVE FALSE
    <3> DEFINE T == {i \in 1 .. n : f[i] # Upto(i)}
    <3>1. T \subseteq Nat /\ T # {}
      BY <2>1, <2>7
    <3>2. PICK i \in T : \A m \in T : i <= m
      BY <3>1, LeastNatural
    <3>3. i # 1 => i \in 2 .. n /\ i - 1 \in 1 .. n /\ i - 1 \notin T
      BY <2>1, <3>2
    <3>4. f[i] = IF i = 1 THEN pages[1] ELSE f[i - 1] \o pages[i]
      BY <2>6, <3>2
    <3> QED
      BY <2>2, <2>3, <3>2, <3>3, <3>4
  <2>8. FlattenSeq(pages) = f[n]
    BY <1>1, <2>1, <2>5 DEF FlattenSeq
  <2> QED
    BY <2>1, <2>4, <2>7, <2>8 DEF pages, n
<1> QED
  BY <1>1, <1>2, <1>3

LEMMA PagesAreTheFeed ==
    ASSUME NEW D \in SUBSET Ids, NEW rows \in [D -> Rows], NEW t, NEW limit \in Nat \ {0}
    PROVE  FlattenSeq([p \in 1 .. Cardinality(Selected(rows, t)) |-> Cards(rows, t, limit, p)]) = Feed(rows, t)
<1>1. PICK S, n, feed : S = Selected(rows, t) /\ n = Cardinality(S) /\ feed = Feed(rows, t)
  OBVIOUS
<1>2. n \in Nat /\ feed \in [1 .. n -> S]
  BY <1>1, FeedLists
<1>3. feed \in Seq(S) /\ Len(feed) = n
  BY <1>2, SeqDef, LenProperties
<1>4. \A p : Cards(rows, t, limit, p) = PageOf(feed, limit, p)
  BY <1>1 DEF Cards, PageOf
<1>5. FlattenSeq([p \in 1 .. Len(feed) |-> PageOf(feed, limit, p)]) = feed
  BY <1>3, PagesFlatten
<1> QED
  BY <1>1, <1>3, <1>4, <1>5

LEMMA WholeFeed ==
    ASSUME NEW D \in SUBSET Ids, NEW rows \in [D -> Rows]
    PROVE  \E n \in Nat : Enumerates(Feed(rows, ""), n, rows)
<1>1. ASSUME NEW t
      PROVE  \E n \in Nat :
                 /\ Feed(rows, t) \in [1 .. n -> Selected(rows, t)]
                 /\ \A i, j \in 1 .. n : i < j => Precedes(rows, Feed(rows, t)[i], Feed(rows, t)[j])
                 /\ \A i \in Selected(rows, t) : \E j \in 1 .. n : Feed(rows, t)[j] = i
  <2>1. PICK n : n = Cardinality(Selected(rows, t))
    OBVIOUS
  <2>2. /\ n \in Nat /\ Feed(rows, t) \in [1 .. n -> Selected(rows, t)]
        /\ \A i, j \in 1 .. n : i < j => Precedes(rows, Feed(rows, t)[i], Feed(rows, t)[j])
        /\ \A i \in Selected(rows, t) : \E j \in 1 .. n : Feed(rows, t)[j] = i
    BY <2>1, FeedLists
  <2> QED
    BY <2>2
<1>2. Selected(rows, "") = Published(rows)
  BY DEF Selected, Matches
<1> QED
  BY <1>1, <1>2 DEF Enumerates

LEMMA PagesShowNeighbours ==
    ASSUME Types, SlugsUnique, NEW k \in DOMAIN Feed(posts, ""), NEW lk
    PROVE  LET feed == Feed(posts, "")
               At(j) == {feed[l] : l \in {j} \cap DOMAIN feed}
           IN  Page(posts, posts[feed[k]].slug, lk) =
                   {[id |-> feed[k], prev |-> At(k + 1), next |-> At(k - 1)]}
<1>1. PICK D, rows, feed : D = DOMAIN posts /\ rows = posts /\ feed = Feed(posts, "")
  OBVIOUS
<1>2. rows \in [D -> Rows] /\ D \in SUBSET Ids
  BY <1>1 DEF Types
<1>3. PICK n \in Nat : Enumerates(feed, n, rows)
  BY <1>1, <1>2, WholeFeed
<1>4. DOMAIN feed = 1 .. n /\ k \in 1 .. n /\ feed[k] \in Published(rows)
  BY <1>1, <1>3 DEF Enumerates
<1>5. /\ Older(rows, feed[k]) = {feed[l] : l \in {k + 1} \cap DOMAIN feed}
      /\ Newer(rows, feed[k]) = {feed[l] : l \in {k - 1} \cap DOMAIN feed}
  <2>1. NextInFeed(feed, n, rows, k)
    BY <1>2, <1>3, <1>4, FeedNeighbours
  <2> QED
    BY <1>4, <2>1 DEF NextInFeed
<1>6. Page(posts, posts[feed[k]].slug, lk) =
          {[id |-> feed[k], prev |-> Older(posts, feed[k]), next |-> Newer(posts, feed[k])]}
  <2>1. Resolve(posts, posts[feed[k]].slug, lk) = {feed[k]}
    BY <1>1, <1>4, SlugShows
  <2> QED
    BY <2>1 DEF Page
<1>7. Page(posts, posts[feed[k]].slug, lk) =
          {[id |-> feed[k], prev |-> {feed[l] : l \in {k + 1} \cap DOMAIN feed},
            next |-> {feed[l] : l \in {k - 1} \cap DOMAIN feed}]}
  BY <1>1, <1>5, <1>6
<1> QED
  BY <1>1, <1>7

(* list_published_cards, facets, resolve_post, find_adjacent: whatever the  *)
(* tables hold, the pages of a list hold each post of its total once and in *)
(* order, a chip counts what picking it lists, and a published post's slug, *)
(* with a preview link or without, shows it with the neighbours that stand  *)
(* next to it in the feed                                                   *)
(* (src/src/repositories/PostRepository.hpp, src/src/api/PostsController.hpp). *)
THEOREM SurfacesShowOneFeed == Spec => []SurfacesAgree
<1>1. Init => SlugsUnique
  BY DEF Init, SlugsUnique, Empty
<1>2. Types /\ SlugsUnique => SurfacesAgree
  <2> SUFFICES ASSUME Types, SlugsUnique PROVE SurfacesAgree
    OBVIOUS
  <2>1. posts \in [DOMAIN posts -> Rows] /\ DOMAIN posts \in SUBSET Ids
    BY DEF Types
  <2>2. \A t \in Topics \union {"Other"}, limit \in 1 .. 2 :
            FlattenSeq([p \in 1 .. Cardinality(Selected(posts, t)) |-> Cards(posts, t, limit, p)])
              = Feed(posts, t)
    <3>1. ASSUME NEW t \in Topics \union {"Other"}, NEW limit \in 1 .. 2
          PROVE  FlattenSeq([p \in 1 .. Cardinality(Selected(posts, t)) |-> Cards(posts, t, limit, p)])
                   = Feed(posts, t)
      <4>1. limit \in Nat \ {0}
        OBVIOUS
      <4> QED
        BY <2>1, <4>1, PagesAreTheFeed
    <3> QED
      BY <3>1
  <2>3. \A n \in DOMAIN Facets(posts, "") : Facets(posts, "")[n] = Cardinality(Selected(posts, n))
    BY ChipsCount
  <2>4. LET feed == Feed(posts, "")
            At(k) == {feed[j] : j \in {k} \intersect DOMAIN feed}
        IN  \A k \in DOMAIN feed, lk \in {link, NoLink} : Page(posts, posts[feed[k]].slug, lk) =
                {[id |-> feed[k], prev |-> At(k + 1), next |-> At(k - 1)]}
    BY PagesShowNeighbours
  <2> QED
    BY <2>2, <2>3, <2>4 DEF SurfacesAgree
<1> QED
  BY <1>1, <1>2, TypesInit, TypesNext, SlugsStayUnique, PTL DEF Spec
=============================================================================
