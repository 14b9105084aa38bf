-------------------------------- MODULE Posts -------------------------------
(***************************************************************************)
(* Blog posts: the writes of src/src/repositories/PostRepository.hpp under *)
(* the handlers of src/src/api/PostsController.hpp, the preview links, and *)
(* the reads of the public site.  A write is one transaction on the        *)
(* primary; a PATCH reads the post first, in a transaction of its own.     *)
(* Public reads go to a replica that lags, or fall back to the primary.    *)
(*                                                                         *)
(* A row keeps the columns that the handlers tell apart: the slug, the     *)
(* topic (for every other text column too), the status and published_at,   *)
(* 0 for NULL.  Validation.hpp's refusals change nothing and are left out. *)
(***************************************************************************)
EXTENDS Naturals, FiniteSets, FiniteSetsExt, Sequences, SequencesExt, Functions

CONSTANTS
    Ids,            \* uuids, ordered as the database orders them
    Slugs,
    Topics,         \* topics without outer blanks, as the editor sends them
    Editors,        \* administrators with a request in hand
    PreviewTtl,     \* kPreviewTtl
    MaxTime,        \* bound on the clock
    MaxWrites       \* bound on committed writes

ASSUME IdsAssumption == Ids \subseteq Nat /\ IsFiniteSet(Ids)
ASSUME TopicsAssumption == "" \in Topics
ASSUME BoundsAssumption == MaxTime \in Nat \ {0} /\ PreviewTtl \in Nat /\ MaxWrites \in Nat

VARIABLES
    posts,      \* the table on the primary: a function on the ids it holds
    replica,    \* the table as the replica has it
    used,       \* ids handed out by gen_random_uuid
    edits,      \* the PATCH each editor is at: id, body, base, overtaken
    link,       \* a preview link: its subject and expiry
    now,
    writes      \* committed writes, for the bound

vars == <<posts, replica, used, edits, link, now, writes>>

Statuses == {"draft", "published"}
Rows ==
    {r \in [slug : Slugs, topic : Topics, status : Statuses, at : 0 .. MaxTime] :
        r.status = "published" <=> r.at /= 0}

(* The bodies of a PATCH: some of the fields, one at a time. *)
Bodies ==
    [{"slug"} -> Slugs] \union [{"topic"} -> Topics] \union [{"status"} -> Statuses]

NoLink == [sub |-> 0, exp |-> 0]
Empty == [i \in {} |-> {}]

With(f, x, value) == [y \in DOMAIN f \union {x} |-> IF y = x THEN value ELSE f[y]]

Init ==
    /\ posts = Empty /\ replica = Empty
    /\ used = {} /\ edits = Empty
    /\ link = NoLink
    /\ now = 1 /\ writes = 0

-----------------------------------------------------------------------------
(* slug is UNIQUE: 23505 becomes 409 slug_taken. *)
Taken(slug, i) == \E j \in DOMAIN posts \ {i} : posts[j].slug = slug

(* Every write is one transaction; a PATCH of the same post that is past its
   read is overtaken. *)
Commit(i, table) ==
    /\ writes < MaxWrites /\ writes' = writes + 1
    /\ posts' = table
    /\ UNCHANGED <<replica, link, now>>

Overtake(i, others) ==
    [e \in others |-> [edits[e] EXCEPT !.overtaken = @ \/ edits[e].id = i]]

(* read_input, and the date that the INSERT computes from the status *)
NewRow(slug, topic, status) ==
    [slug |-> slug, topic |-> topic, status |-> status,
     at |-> IF status = "published" THEN now ELSE 0]

CreatePost(i, slug, topic, status) ==
    /\ i \notin used /\ ~Taken(slug, i)
    /\ Commit(i, With(posts, i, NewRow(slug, topic, status)))
    /\ used' = used \union {i}
    /\ UNCHANGED edits

(* A slip: the base of the merge is read like any other post. *)
MergeBaseAnywhere == replica

(* find(id, from_primary = true) *)
MergeBase == posts

ReadForUpdate(e, i, body) ==
    /\ e \notin DOMAIN edits /\ writes < MaxWrites
    /\ i \in DOMAIN MergeBase
    /\ edits' = With(edits, e, [id |-> i, body |-> body,
                                base |-> MergeBase[i], overtaken |-> FALSE])
    /\ UNCHANGED <<posts, replica, used, link, now, writes>>

(* merge_input *)
Merged(body, base) ==
    [f \in DOMAIN base |-> IF f \in DOMAIN body THEN body[f] ELSE base[f]]

(* A slip: the date outlives the status. *)
PublishedAtKept(row, status) ==
    IF row.at = 0 /\ status = "published" THEN now ELSE row.at

(* COALESCE(published_at, now()) or NULL, over the row as the UPDATE finds it *)
PublishedAt(row, status) ==
    IF status /= "published" THEN 0 ELSE IF row.at /= 0 THEN row.at ELSE now

(* The UPDATE of every column; 404 when the post is gone, 409 for the slug. *)
UpdatePost(e) ==
    /\ e \in DOMAIN edits
    /\ LET i == edits[e].id
           in == Merged(edits[e].body, edits[e].base)
           others == DOMAIN edits \ {e}
       IN  IF i \notin DOMAIN posts \/ Taken(in.slug, i)
           THEN /\ edits' = Restrict(edits, others)
                /\ UNCHANGED <<posts, replica, link, now, writes>>
           ELSE /\ Commit(i, [posts EXCEPT ![i] =
                       [in EXCEPT !.at = PublishedAt(posts[i], in.status)]])
                /\ edits' = Overtake(i, others)
    /\ UNCHANGED used

DeletePost(i) ==
    /\ i \in DOMAIN posts
    /\ Commit(i, Restrict(posts, DOMAIN posts \ {i}))
    /\ edits' = Overtake(i, DOMAIN edits)
    /\ UNCHANGED used

(* The replica catches up. *)
Replicate ==
    /\ replica /= posts
    /\ replica' = posts
    /\ UNCHANGED <<posts, used, edits, link, now, writes>>

(* previewToken, from either copy of the table; one link is followed *)
IssueLink(i) ==
    /\ link = NoLink
    /\ i \in DOMAIN posts \union DOMAIN replica
    /\ link' = [sub |-> i, exp |-> now + PreviewTtl]
    /\ UNCHANGED <<posts, replica, used, edits, now, writes>>

Tick ==
    /\ now < MaxTime /\ now' = now + 1
    /\ UNCHANGED <<posts, replica, used, edits, link, writes>>

Next ==
    \/ \E i \in Ids, s \in Slugs, t \in Topics, st \in Statuses : CreatePost(i, s, t, st)
    \/ \E e \in Editors, i \in Ids, b \in Bodies : ReadForUpdate(e, i, b)
    \/ \E e \in Editors : UpdatePost(e)
    \/ \E i \in Ids : DeletePost(i) \/ IssueLink(i)
    \/ Replicate
    \/ Tick

Spec == Init /\ [][Next]_vars

-----------------------------------------------------------------------------
(* The reads of the public site, over a copy of the table. *)

(* public_where *)
Matches(row, topic) ==
    \/ topic = ""
    \/ topic = "Other" /\ row.topic = ""
    \/ row.topic = topic

Published(rows) == {i \in DOMAIN rows : rows[i].status = "published"}
Selected(rows, topic) == {i \in Published(rows) : Matches(rows[i], topic)}

(* ORDER BY published_at DESC, id DESC *)
Precedes(rows, i, j) == rows[i].at > rows[j].at \/ (rows[i].at = rows[j].at /\ i > j)
Feed(rows, topic) ==
    LET selected == Selected(rows, topic)
    IN  CHOOSE feed \in [1 .. Cardinality(selected) -> selected] :
            \A k, l \in DOMAIN feed : k < l => Precedes(rows, feed[k], feed[l])

(* list_published_cards with LIMIT limit OFFSET (page - 1) * limit *)
Cards(rows, topic, limit, page) ==
    LET feed == Feed(rows, topic)
    IN  SubSeq(feed, (page - 1) * limit + 1, Min({page * limit, Len(feed)}))

(* facets: every topic of the result with the number of its posts *)
FacetName(row) == IF row.topic = "" THEN "Other" ELSE row.topic
Facets(rows, topic) ==
    [n \in {FacetName(rows[i]) : i \in Selected(rows, topic)} |->
        Cardinality({i \in Selected(rows, topic) : FacetName(rows[i]) = n})]

(* A slip: the neighbours are compared by their date alone. *)
RowAboveByDate(rows, i, j) ==
    rows[i].at /= 0 /\ rows[j].at /= 0 /\ rows[i].at > rows[j].at

(* (published_at, id) > (SELECT published_at, id ...): never true of a NULL *)
RowAbove(rows, i, j) ==
    /\ rows[i].at /= 0 /\ rows[j].at /= 0
    /\ rows[i].at > rows[j].at \/ (rows[i].at = rows[j].at /\ i > j)

(* find_adjacent: at most one older and one newer neighbour *)
Older(rows, i) ==
    LET below == {j \in Published(rows) : RowAbove(rows, i, j)}
    IN  {j \in below : \A k \in below \ {j} : RowAbove(rows, j, k)}
Newer(rows, i) ==
    LET above == {j \in Published(rows) : RowAbove(rows, j, i)}
    IN  {j \in above : \A k \in above \ {j} : RowAbove(rows, k, j)}

(* Tokens::verify, and the binding to the post *)
Opens(lk, i) == now < lk.exp /\ lk.sub = i

(* find_by_slug_any, find_published_by_slug *)
BySlug(rows, slug) == {i \in DOMAIN rows : rows[i].slug = slug}

(* resolve_post: the ids that a slug, with a preview link or NoLink, shows *)
Resolve(rows, slug, lk) ==
    {i \in BySlug(rows, slug) :
        rows[i].status = "published" \/ (lk /= NoLink /\ Opens(lk, i))}

(* publicGetPost with ?include=adjacent *)
Page(rows, slug, lk) ==
    {[id |-> i, prev |-> Older(rows, i), next |-> Newer(rows, i)] : i \in Resolve(rows, slug, lk)}

-----------------------------------------------------------------------------
(* Types; a post has a date when it is published and only then. *)
TypeOK ==
    /\ DOMAIN posts \subseteq used /\ used \subseteq Ids
    /\ \A i \in DOMAIN posts : posts[i] \in Rows
    /\ \A i \in DOMAIN replica : replica[i] \in Rows
    /\ \A e \in DOMAIN edits : edits[e].base \in Rows /\ edits[e].body \in Bodies
    /\ now \in 1 .. MaxTime /\ writes \in 0 .. MaxWrites

(* A PATCH changes only what it names: unless another write to the post came
   between its read and its write, every omitted field keeps its value, and a
   post that stays published keeps its date, with or without other writers. *)
KeepsOmitted ==
    [][\A e \in DOMAIN edits :
        LET i == edits[e].id
        IN  /\ e \notin DOMAIN edits'
            /\ i \in DOMAIN posts \intersect DOMAIN posts'
            => /\ ~edits[e].overtaken =>
                    \A f \in {"slug", "topic", "status"} \ DOMAIN edits[e].body :
                        posts'[i][f] = posts[i][f]
               /\ posts[i].status = "published" /\ posts'[i].status = "published" =>
                    posts'[i].at = posts[i].at]_vars

(* The queries of the public site agree about the same table: the pages of a
   list hold each post of its total once, a topic's chip counts what picking
   it lists, a slug shows the post that the feed lists under it, with any
   preview link or none, and the neighbours of a post are those next to it in
   the feed. *)
SurfacesAgree ==
    /\ \A t \in Topics \union {"Other"}, limit \in 1 .. 2 :
        LET n == Cardinality(Selected(posts, t))
        IN  FlattenSeq([p \in 1 .. n |-> Cards(posts, t, limit, p)]) = Feed(posts, t)
    /\ \A n \in DOMAIN Facets(posts, "") :
        Facets(posts, "")[n] = Cardinality(Selected(posts, n))
    /\ LET feed == Feed(posts, "")
           At(k) == {feed[j] : j \in {k} \intersect DOMAIN feed}
       IN  \A k \in DOMAIN feed, lk \in {link, NoLink} :
            Page(posts, posts[feed[k]].slug, lk) =
                {[id |-> feed[k], prev |-> At(k + 1), next |-> At(k - 1)]}
=============================================================================
