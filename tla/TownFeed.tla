------------------------------- MODULE TownFeed -------------------------------
(***************************************************************************)
(* The first page of the town feed: AtprotoService.getTownFeed merges the  *)
(* optimistic rows of fresh publications, the posts of the local PDS and   *)
(* the public search, whose answer it caches.  Publications and deletions  *)
(* (the last steps of PostPublish) drop the cache.  Every await is a step; *)
(* the page is taken to be longer than the number of posts.                *)
(***************************************************************************)
EXTENDS ServiceConstants

VARIABLES now,        \* the clock
          pds,        \* pds[p]: "none", "live" or "deleted" in its author's repository
          deletedAt,  \* deletedAt[p]: when it was deleted
          index,      \* the posts that the public search finds
          droppedAt,  \* droppedAt[p]: when the search last lost p
          feedRow,        \* row[p]: when the optimistic row of p expires, 0: none
          cache,      \* the row of feed_cache
          writer,     \* writer[p]: what is left to do of its publication or deletion
          reader      \* reader[r]: a request in flight

feedVars == <<now, pds, deletedAt, index, droppedAt, feedRow, cache, writer, reader>>

Times == 0..MaxNow
CacheRows == [held : BOOLEAN, posts : SUBSET Posts, at : Times]
NoRow == [held |-> FALSE, posts |-> {}, at |-> 0]
IdleReader == [pc |-> "idle", cached |-> NoRow, now |-> 0, shown |-> {}, due |-> {},
         stale |-> FALSE]

FeedTypeOK ==
    /\ now \in Times
    /\ pds \in [Posts -> {"none", "live", "deleted"}]
    /\ deletedAt \in [Posts -> Times] /\ droppedAt \in [Posts -> Times]
    /\ index \in SUBSET Posts
    /\ feedRow \in [Posts -> 0..(MaxNow + KeepFor)]
    /\ cache \in CacheRows
    /\ writer \in [Posts -> {"idle", "finalize", "drop"}]
    /\ reader \in [Readers -> [pc : {"idle", "rows", "local", "choose", "search",
                                     "store", "answer"},
                               cached : CacheRows, now : Times, shown : SUBSET Posts,
                               due : SUBSET Posts, stale : BOOLEAN]]

FeedInit ==
    /\ now = 0
    /\ pds = [p \in Posts |-> "none"]
    /\ deletedAt = [p \in Posts |-> 0] /\ droppedAt = [p \in Posts |-> 0]
    /\ index = {}
    /\ feedRow = [p \in Posts |-> 0]
    /\ cache = NoRow
    /\ writer = [p \in Posts |-> "idle"]
    /\ reader = [r \in Readers |-> IdleReader]

-------------------------------------------------------------------------------
(* Publication: createRecord, then the batch of finalizePublishedPost.     *)
CreatePost(p) ==
    /\ pds[p] = "none"
    /\ pds' = [pds EXCEPT ![p] = "live"]
    /\ writer' = [writer EXCEPT ![p] = "finalize"]
    /\ UNCHANGED <<now, deletedAt, index, droppedAt, feedRow, cache, reader>>

Finalize(p) ==
    /\ writer[p] = "finalize"
    /\ feedRow' = [feedRow EXCEPT ![p] = now + KeepFor]
    /\ cache' = NoRow
    /\ writer' = [writer EXCEPT ![p] = "idle"]
    /\ UNCHANGED <<now, pds, deletedAt, index, droppedAt, reader>>

(* Deletion: deleteRecord, then the cache; the optimistic row stays.       *)
DeletePost(p) ==
    /\ pds[p] = "live" /\ writer[p] = "idle"
    /\ pds' = [pds EXCEPT ![p] = "deleted"]
    /\ deletedAt' = [deletedAt EXCEPT ![p] = now]
    /\ writer' = [writer EXCEPT ![p] = "drop"]
    /\ UNCHANGED <<now, index, droppedAt, feedRow, cache, reader>>

DropCache(p) ==
    /\ writer[p] = "drop"
    /\ cache' = NoRow
    /\ writer' = [writer EXCEPT ![p] = "idle"]
    /\ UNCHANGED <<now, pds, deletedAt, index, droppedAt, feedRow, reader>>

(* A publication or deletion stops between its two steps.                  *)
WriterDies(p) ==
    /\ writer[p] # "idle"
    /\ writer' = [writer EXCEPT ![p] = "idle"]
    /\ UNCHANGED <<now, pds, deletedAt, index, droppedAt, feedRow, cache, reader>>

(* The public search follows the repositories in its own time.             *)
IndexPost(p) ==
    /\ pds[p] = "live" /\ p \notin index
    /\ index' = index \cup {p}
    /\ UNCHANGED <<now, pds, deletedAt, droppedAt, feedRow, cache, writer, reader>>

UnindexPost(p) ==
    /\ pds[p] = "deleted" /\ p \in index
    /\ index' = index \ {p}
    /\ droppedAt' = [droppedAt EXCEPT ![p] = now]
    /\ UNCHANGED <<now, pds, deletedAt, feedRow, cache, writer, reader>>

-------------------------------------------------------------------------------
ReaderTo(r, s) == reader' = [reader EXCEPT ![r] = s]
RestOfFeed == UNCHANGED <<now, pds, deletedAt, index, droppedAt, feedRow, writer>>

(* The cached row is read before the clock is.  due: the posts this answer *)
(* has to show, those whose publication has finished.                      *)
ReadCache(r) ==
    /\ reader[r].pc = "idle"
    /\ ReaderTo(r, [IdleReader EXCEPT !.pc = "rows", !.cached = cache,
                                      !.due = {p \in Posts : feedRow[p] # 0 /\ pds[p] = "live"}])
    /\ RestOfFeed /\ UNCHANGED cache

ReadRows(r) ==
    LET unexpired == {p \in Posts : feedRow[p] > now}
    IN /\ reader[r].pc = "rows"
       /\ ReaderTo(r, [reader[r] EXCEPT !.pc = "local", !.now = now, !.shown = unexpired,
                                        !.due = @ \cap unexpired])
       /\ RestOfFeed /\ UNCHANGED cache

(* The local PDS lists the posts of its own accounts; a repository that    *)
(* does not answer counts as empty.                                        *)
ReadLocal(r) ==
    /\ reader[r].pc = "local"
    /\ \E listed \in SUBSET {p \in Posts : pds[p] = "live"} :
         ReaderTo(r, [reader[r] EXCEPT !.pc = "choose", !.shown = @ \cup listed])
    /\ RestOfFeed /\ UNCHANGED cache

Fresh(c, t) == c.held /\ c.at + FreshFor > t
Usable(c, t) == c.held /\ c.at + KeepFor > t

\* Mutant: a fresh cached answer is returned as it is.
ServeFreshBare(r) ==
    /\ reader[r].pc = "choose"
    /\ IF Fresh(reader[r].cached, reader[r].now)
       THEN ReaderTo(r, [reader[r] EXCEPT !.pc = "answer", !.shown = reader[r].cached.posts])
       ELSE ReaderTo(r, [reader[r] EXCEPT !.pc = "search"])
    /\ RestOfFeed /\ UNCHANGED cache

ServeFresh(r) ==
    /\ reader[r].pc = "choose"
    /\ IF Fresh(reader[r].cached, reader[r].now)
       THEN ReaderTo(r, [reader[r] EXCEPT !.pc = "answer", !.cached = NoRow,
                                          !.shown = @ \cup reader[r].cached.posts])
       ELSE ReaderTo(r, [reader[r] EXCEPT !.pc = "search"])
    /\ RestOfFeed /\ UNCHANGED cache

(* A found answer is kept in `cached' until it is stored.                  *)
Search(r) ==
    /\ reader[r].pc = "search"
    /\ ReaderTo(r, [reader[r] EXCEPT !.pc = "store", !.cached = [held |-> TRUE, posts |-> index,
                                                                 at |-> reader[r].now]])
    /\ RestOfFeed /\ UNCHANGED cache

\* Mutant: the row is dated when it is stored.
StoreNow(r) ==
    /\ reader[r].pc = "store"
    /\ cache' = [reader[r].cached EXCEPT !.at = now]
    /\ ReaderTo(r, [reader[r] EXCEPT !.pc = "answer", !.cached = NoRow,
                                     !.shown = @ \cup reader[r].cached.posts])
    /\ RestOfFeed

Store(r) ==
    /\ reader[r].pc = "store"
    /\ cache' = reader[r].cached
    /\ ReaderTo(r, [reader[r] EXCEPT !.pc = "answer", !.cached = NoRow,
                                     !.shown = @ \cup reader[r].cached.posts])
    /\ RestOfFeed

(* The search fails: an old row is served as stale, or what was listed     *)
(* here, or the answer is 503.                                             *)
ServeStale(r) ==
    /\ reader[r].pc = "search"
    /\ ReaderTo(r, CASE Usable(reader[r].cached, reader[r].now) ->
                          [reader[r] EXCEPT !.pc = "answer", !.stale = TRUE, !.cached = NoRow,
                                            !.shown = @ \cup reader[r].cached.posts]
                     [] ~Usable(reader[r].cached, reader[r].now) /\ reader[r].shown # {} ->
                          [reader[r] EXCEPT !.pc = "answer", !.stale = TRUE, !.cached = NoRow]
                     [] OTHER -> IdleReader)
    /\ RestOfFeed /\ UNCHANGED cache

Answer(r) ==
    /\ reader[r].pc = "answer"
    /\ ReaderTo(r, IdleReader)
    /\ RestOfFeed /\ UNCHANGED cache

Tick ==
    /\ now < MaxNow
    /\ now' = now + 1
    /\ UNCHANGED <<pds, deletedAt, index, droppedAt, feedRow, cache, writer, reader>>

FeedNext ==
    \/ \E p \in Posts :
         \/ CreatePost(p) \/ Finalize(p) \/ DeletePost(p) \/ DropCache(p)
         \/ WriterDies(p) \/ IndexPost(p) \/ UnindexPost(p)
    \/ \E r \in Readers :
         \/ ReadCache(r) \/ ReadRows(r) \/ ReadLocal(r) \/ ServeFresh(r)
         \/ Search(r) \/ Store(r) \/ ServeStale(r) \/ Answer(r)
    \/ Tick

FeedSpec == FeedInit /\ [][FeedNext]_feedVars

-------------------------------------------------------------------------------
(* A request that starts after a post's publication has finished shows it  *)
(* until the optimistic row expires, whatever search and cache say.        *)
PublishedShown ==
    \A r \in Readers : reader[r].pc = "answer" => reader[r].due \subseteq reader[r].shown

(* A deleted post is shown only by a request that started before the       *)
(* deletion, while its optimistic row lives (deleteOwnPost leaves it), or  *)
(* while the search found it FreshFor (KeepFor if stale) ago: a reader     *)
(* that fills the cache after a deletion has dropped it cannot extend      *)
(* this, because the row is dated before the search was made.              *)
DeletedBounded ==
    \A r \in Readers : \A p \in reader[r].shown :
        reader[r].pc = "answer" /\ pds[p] = "deleted" =>
            \/ deletedAt[p] >= reader[r].now
            \/ feedRow[p] > reader[r].now
            \/ p \in index
            \/ droppedAt[p] + (IF reader[r].stale THEN KeepFor ELSE FreshFor)
                 > reader[r].now
===============================================================================
