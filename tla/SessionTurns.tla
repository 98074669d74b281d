---------------------------- MODULE SessionTurns ----------------------------
(***************************************************************************)
(* The turns of one session on their way through the Anthropic handler:    *)
(* the tracker of the conversation's lineage (SessionTrackerStore,         *)
(* PrefixCacheTracker), the session's CompressionCache, the cold-start     *)
(* fast pass and its background job, and the replay of the prefix that was *)
(* forwarded before (overlay_cached_prefix), in token mode and in cache    *)
(* mode.  Requests overlap: a handler gives up the event loop while its    *)
(* messages are compressed and while the provider answers.  Where          *)
(* HEADROOM_COLD_RECOMPACT allows it, a turn that finds the provider's     *)
(* prompt cache lapsed compresses the whole history again and replays      *)
(* nothing.                                                                *)
(*                                                                         *)
(* The client's message is a content; what is forwarded for it is a form   *)
(* of that content, [c |-> content, f |-> form].  The form "raw" is the    *)
(* client's own bytes, "small" a compression, "big" one that came out      *)
(* longer.  The pipeline is free to choose among them for every message    *)
(* it may touch; it keeps the number of messages.                          *)
(***************************************************************************)
EXTENDS Integers, Sequences, FiniteSets, Functions, SequencesExt

CONSTANTS
    ToolResults,   \* contents of tool_result messages
    Plain,         \* contents of other messages, never compressed
    Histories,     \* the message lists that clients of this session send
    Outcomes,      \* for each tool result, the forms compression may give it
    Answer,        \* the assistant message of a response, a member of Plain
    Requests,      \* the requests of the session
    None,          \* "no tracker" and "no job"
    Caps,          \* values of PrefixFreezeConfig.max_lineages_per_session explored
    MaxEntries,    \* CompressionCache.max_entries
    Modes,         \* the modes explored, among "token" and "cache"
    Recompacts,    \* the settings of cold recompaction explored (recompact, below)
    MaxTurns,      \* bound: for each mode, the requests of a behaviour
    Covered        \* bound: the frozen counts a response may set

Contents == ToolResults \cup Plain

ASSUME HistoriesAssumption == Histories \subseteq (Seq(Contents) \ {<<>>})
ASSUME AnswerAssumption == Answer \in Plain /\ None \notin Requests
ASSUME RecompactsAssumption == Recompacts \subseteq {"off", "idle", "always"}
ASSUME BoundsAssumption == Caps \subseteq Nat /\ MaxEntries \in Nat \ {0}

VARIABLES
    mode,      \* config.mode
    cap,       \* PrefixFreezeConfig.max_lineages_per_session
    recompact, \* cold recompaction: "off", "idle" (when the prompt cache lapsed),
               \* or "always" (the client has prompt caching disabled)
    cache,     \* CompressionCache._cache: [h, v] pairs, least recently used first
    stable,    \* CompressionCache._stable_hashes
    tracker,   \* the tracker objects, named by the request that created each
    alive,     \* SessionTrackerStore._trackers, longest idle first
    chain,     \* SessionTrackerStore._lineages of this session
    overflow,  \* the tracker that conversations over the cap share
    req,       \* the requests
    job        \* the background job in flight for this session, or None

config == <<mode, cap, recompact>>
vars == <<config, cache, stable, tracker, alive, chain, overflow, req, job>>

Forms == {"raw", "small", "big"}
Tokens(f) == CASE f = "small" -> 1 [] f = "raw" -> 2 [] f = "big" -> 4

Raw(m) == [i \in DOMAIN m |-> [c |-> m[i], f |-> "raw"]]
CountMessages(bs) == FoldLeft(LAMBDA n, b : n + Tokens(b.f), 0, bs)
Upto(s, n) == SubSeq(s, 1, n)
Smaller(a, b) == IF a < b THEN a ELSE b
Put(f, k, v) == [x \in DOMAIN f \cup {k} |-> IF x = k THEN v ELSE f[x]]

NewTracker == [orig |-> <<>>, fwd |-> <<>>, frozen |-> 0]
Idle == [pc |-> "new", msgs |-> <<>>, tid |-> None, frozen |-> 0, cold |-> FALSE,
         working |-> <<>>, prev |-> 0, opt |-> <<>>, out |-> <<>>]

Init ==
    /\ mode \in Modes /\ cap \in Caps /\ recompact \in Recompacts
    /\ cache = <<>> /\ stable = {}
    /\ tracker = <<>> /\ alive = <<>> /\ chain = <<>> /\ overflow = None
    /\ req = [r \in Requests |-> Idle]
    /\ job = None

-----------------------------------------------------------------------------
(* CompressionCache: an LRU map from contents to compressed forms. *)

Keys == {cache[i].h : i \in DOMAIN cache}
Cached(h) == (CHOOSE e \in ToSet(cache) : e.h = h).v
Without(s, h) == RemoveFirstMatch(s, LAMBDA e : e.h = h)

\* Plausible bug: the map is trimmed before the new entry goes in.
StoreCompressedTrimFirst(s, h, v) ==
    LET kept == Without(s, h)
    IN  Append(SubSeq(kept, 1 + Len(kept) - Smaller(Len(kept), MaxEntries), Len(kept)),
               [h |-> h, v |-> v])

\* store_compressed: the entry goes to the recent end, the oldest ones over the
\* limit go.
StoreCompressed(s, h, v) ==
    LET t == Append(Without(s, h), [h |-> h, v |-> v])
    IN  SubSeq(t, 1 + Len(t) - Smaller(Len(t), MaxEntries), Len(t))

\* The cache when, in the order of the messages m, vs[i] is stored for each m[i]
\* with i in P.
StoreAll(m, vs, P) ==
    LET after[i \in 0..Len(m)] ==
            IF i = 0 THEN cache
            ELSE IF i \in P THEN StoreCompressed(after[i - 1], m[i], vs[i]) ELSE after[i - 1]
    IN  after[Len(m)]

\* compute_frozen_count: leading messages that are plain, cached or known to be
\* stable; the last message is never among them.
ComputeFrozenCount(m) ==
    LET unstable == {i \in DOMAIN m : m[i] \in ToolResults \ (Keys \cup stable)}
        run == IF unstable = {} THEN Len(m)
               ELSE (CHOOSE i \in unstable : \A j \in unstable : i <= j) - 1
    IN  Smaller(run, Len(m) - 1)

\* apply_cached: what the pipeline starts from, and the entries it moves to the
\* recent end, in the order of the messages.
ApplyCached(m) ==
    [i \in DOMAIN m |-> IF m[i] \in Keys THEN Cached(m[i]) ELSE [c |-> m[i], f |-> "raw"]]
Touched(m) == StoreAll(m, ApplyCached(m), {i \in DOMAIN m : m[i] \in Keys})

\* update_from_result: position by position, a tool result that changed is
\* cached, one that did not is stable.
UpdatedCache(m, res) ==
    StoreAll(m, res, {i \in DOMAIN m : m[i] \in ToolResults /\ res[i].f # "raw"})
UpdatedStable(m, res) ==
    stable \cup {m[i] : i \in {j \in DOMAIN m : m[j] \in ToolResults /\ res[j].f = "raw"}}

UpdateFromResult(m, res) ==
    /\ cache' = UpdatedCache(m, res)
    /\ stable' = UpdatedStable(m, res)

\* The pipeline: messages in the frozen prefix are left alone, a tool result
\* after it may come out in any of its forms.
Results(working, frozen) ==
    {[i \in DOMAIN working |-> [c |-> working[i].c, f |-> g[i]]] :
       g \in {h \in [DOMAIN working -> Forms] :
                \A i \in DOMAIN working :
                   \/ h[i] = working[i].f
                   \/ i > frozen /\ working[i].c \in ToolResults /\ h[i] \in Outcomes[working[i].c]}}

-----------------------------------------------------------------------------
(* SessionTrackerStore. *)

\* The history m goes on from the chain c: every message of c is still there.
Continues(c, m) == IsPrefix(c, m)

\* Plausible bug: the shortest recorded chain wins.
ShortestLineage(fam, m) ==
    CHOOSE k \in {k \in DOMAIN fam : Continues(fam[k], m)} :
        \A l \in DOMAIN fam : Continues(fam[l], m) => Len(fam[k]) <= Len(fam[l])

\* The longest recorded chain that the incoming history continues wins.
BestLineage(fam, m) ==
    CHOOSE k \in {k \in DOMAIN fam : Continues(fam[k], m)} :
        \A l \in DOMAIN fam : Continues(fam[l], m) => Len(fam[l]) <= Len(fam[k])

\* The trackers that are left when the n longest idle ones have expired.
Kept(n) == SubSeq(alive, n + 1, Len(alive))

\* Is the turn cold?  A tracker that is new has not been idle, one that is in the
\* store may have been for any time.
MayBeCold(t, n) ==
    CASE recompact = "off" -> {FALSE}
      [] recompact = "always" -> {TRUE}
      [] recompact = "idle" -> IF t \in ToSet(Kept(n)) THEN BOOLEAN ELSE {FALSE}

\* get_or_create of tracker t, and this request's view of it.  A cold turn of
\* token mode forgets the frozen prefix.
Fetch(r, m, t, n) ==
    /\ alive' = Append(RemoveFirst(Kept(n), t), t)
    /\ tracker' = IF t \in DOMAIN tracker THEN tracker ELSE Put(tracker, t, NewTracker)
    /\ \E cold \in MayBeCold(t, n) :
          req' = [req EXCEPT ![r] =
              [Idle EXCEPT !.pc = "resolved", !.msgs = m, !.tid = t, !.cold = cold,
                           !.frozen = IF cold /\ mode = "token" THEN 0
                                      ELSE tracker'[t].frozen]]

\* The requests that have come so far.
Turns == {r \in Requests : req[r].pc # "new"}

\* resolve_tracker: drop what has expired, then find the lineage of the
\* history, start one, or share the overflow tracker.
Resolve(r, m, n) ==
    LET fam == Restrict(chain, ToSet(Kept(n)) \cap DOMAIN chain)
        known == \E k \in DOMAIN fam : Continues(fam[k], m)
    IN  /\ req[r].pc = "new" /\ Cardinality(Turns) < MaxTurns[mode]
        /\ \/ /\ known
              /\ Fetch(r, m, BestLineage(fam, m), n)
              /\ chain' = Put(fam, BestLineage(fam, m), m)
              /\ UNCHANGED overflow
           \/ /\ ~known /\ Cardinality(DOMAIN fam) >= cap
              /\ overflow' = IF overflow \in ToSet(Kept(n)) THEN overflow ELSE r
              /\ Fetch(r, m, overflow', n)
              /\ chain' = fam
           \/ /\ ~known /\ Cardinality(DOMAIN fam) < cap
              /\ Fetch(r, m, r, n)
              /\ chain' = Put(fam, r, m)
              /\ UNCHANGED overflow
        /\ UNCHANGED <<config, cache, stable, job>>

-----------------------------------------------------------------------------
(* What is forwarded. *)

\* How many leading messages of m are those of the record t.
CommonPrefix(m, t) ==
    LET agree == {k \in 0..Smaller(Len(m), Len(t.orig)) : Upto(m, k) = Upto(t.orig, k)}
    IN  CHOOSE k \in agree : \A j \in agree : j <= k

\* Plausible bug: the record is replayed by position alone.
OverlayByPosition(opt, m, t) ==
    IF Len(t.fwd) # Len(t.orig) THEN opt
    ELSE LET k == Smaller(Len(m), Len(t.fwd))
         IN  Upto(t.fwd, k) \o SubSeq(opt, k + 1, Len(opt))

\* Plausible bug: the replay is all or nothing.
OverlayWhole(opt, m, t) ==
    IF Len(t.fwd) # Len(t.orig) \/ ~IsPrefix(t.orig, m) THEN opt
    ELSE t.fwd \o SubSeq(opt, Len(t.fwd) + 1, Len(opt))

\* overlay_cached_prefix: as far as the history is the recorded one, replay the
\* bytes that were forwarded for it.
Overlay(opt, m, t) ==
    IF Len(t.fwd) # Len(t.orig) THEN opt
    ELSE LET k == CommonPrefix(m, t)
         IN  Upto(t.fwd, k) \o SubSeq(opt, k + 1, Len(opt))

\* The inflation guard: token mode, longer than the client's messages, and the
\* overlay changed nothing.
Reverts(opt, ov, m) ==
    /\ mode = "token"
    /\ ov = opt
    /\ CountMessages(ov) > CountMessages(Raw(m))

\* From the end of compression to the request that goes upstream.  The record
\* is read here, after the await; a cold turn does not look at it.
Forward(r, opt) ==
    LET m == req[r].msgs
        ov == IF req[r].cold THEN opt ELSE Overlay(opt, m, tracker[req[r].tid])
    IN  req' = [req EXCEPT ![r].pc = "sent", ![r].working = <<>>, ![r].opt = ov,
                           ![r].out = IF Reverts(opt, ov, m) THEN Raw(m) ELSE ov]

\* Compression is switched off for this request, or shed under backpressure.
SkipCompression(r) ==
    /\ req[r].pc = "resolved"
    /\ Forward(r, Raw(req[r].msgs))
    /\ UNCHANGED <<config, cache, stable, tracker, alive, chain, overflow, job>>

-----------------------------------------------------------------------------
(* Token mode. *)

\* Up to the first await: bound the frozen prefix, swap in what is cached.  A
\* large cold start goes the way of the fast pass and leaves the whole
\* pipeline to a background job, of which a session has at most one.
Prepare(r) ==
    LET m == req[r].msgs
        frozen == Smaller(req[r].frozen, ComputeFrozenCount(m))
        working == ApplyCached(m)
    IN  /\ mode = "token" /\ req[r].pc = "resolved"
        /\ stable' = stable \cup (ToSet(Upto(m, frozen)) \cap ToolResults)
        /\ cache' = Touched(m)
        /\ \E next \in {"full"} \cup (IF frozen = 0 THEN {"fast"} ELSE {}) :
              /\ req' = [req EXCEPT ![r].pc = next, ![r].frozen = frozen,
                                    ![r].working = working]
              /\ job' = IF next = "fast" /\ job = None
                        THEN [msgs |-> m, working |-> working] ELSE job
        /\ UNCHANGED <<config, tracker, alive, chain, overflow>>

\* The pipeline's result arrives within its deadline.
TokenDone(r) ==
    /\ req[r].pc \in {"full", "fast"}
    /\ \E res \in Results(req[r].working, req[r].frozen) :
          /\ IF req[r].pc = "fast" \/ res # req[r].working
             THEN UpdateFromResult(req[r].msgs, res)
             ELSE UNCHANGED <<cache, stable>>
          /\ Forward(r, res)
    /\ UNCHANGED <<config, tracker, alive, chain, overflow, job>>

\* It does not (timeout, quarantine, exception): a failed fast pass forwards
\* the working messages, a failed full pass the client's.
TokenFails(r) ==
    /\ \/ req[r].pc = "fast" /\ Forward(r, req[r].working)
       \/ req[r].pc = "full" /\ Forward(r, Raw(req[r].msgs))
    /\ UNCHANGED <<config, cache, stable, tracker, alive, chain, overflow, job>>

\* The background job ends: its result is cached for later turns.
BackgroundDone ==
    /\ job # None
    /\ \E res \in Results(job.working, 0) : UpdateFromResult(job.msgs, res)
    /\ job' = None
    /\ UNCHANGED <<config, tracker, alive, chain, overflow, req>>

BackgroundFails ==
    /\ job # None
    /\ job' = None
    /\ UNCHANGED <<config, cache, stable, tracker, alive, chain, overflow, req>>

-----------------------------------------------------------------------------
(* Cache mode. *)

\* A cold turn sends the client's whole history to the pipeline.
CacheCold(r) ==
    /\ mode = "cache" /\ req[r].pc = "resolved" /\ req[r].cold
    /\ req' = [req EXCEPT ![r].pc = "delta", ![r].working = Raw(req[r].msgs)]
    /\ UNCHANGED <<config, cache, stable, tracker, alive, chain, overflow, job>>

\* extract_cache_stable_delta: the history extends the recorded one.
Extends(m, t) == t.orig # <<>> /\ IsPrefix(t.orig, m)

\* No delta: nothing was recorded, the history diverged, or it has nothing new.
CacheNoDelta(r) ==
    LET m == req[r].msgs
        t == tracker[req[r].tid]
    IN  /\ mode = "cache" /\ req[r].pc = "resolved" /\ ~req[r].cold
        /\ \/ ~Extends(m, t) /\ Forward(r, Raw(m))
           \/ Extends(m, t) /\ Len(m) = Len(t.orig) /\ Forward(r, t.fwd)
        /\ UNCHANGED <<config, cache, stable, tracker, alive, chain, overflow, job>>

\* The delta behind the bytes recorded now is sent to the pipeline.
CacheDelta(r) ==
    LET m == req[r].msgs
        t == tracker[req[r].tid]
    IN  /\ mode = "cache" /\ req[r].pc = "resolved" /\ ~req[r].cold
        /\ Extends(m, t) /\ Len(m) > Len(t.orig)
        /\ req' = [req EXCEPT ![r].pc = "delta", ![r].prev = Len(t.fwd),
                              ![r].working = t.fwd \o SubSeq(Raw(m), Len(t.orig) + 1, Len(m))]
        /\ UNCHANGED <<config, cache, stable, tracker, alive, chain, overflow, job>>

CacheDone(r) ==
    /\ req[r].pc = "delta"
    /\ \/ \E res \in Results(req[r].working, req[r].prev) : Forward(r, res)
       \/ Forward(r, Raw(req[r].msgs))
    /\ UNCHANGED <<config, cache, stable, tracker, alive, chain, overflow, job>>

-----------------------------------------------------------------------------
(* The provider's answer. *)

\* update_from_response: the record, with the assistant's message if the answer
\* has one, and as many frozen messages as the reported cache tokens cover.
Respond(r) ==
    LET t == req[r].tid IN
    /\ req[r].pc = "sent"
    /\ \E a \in {<<>>, <<Answer>>} : \E frozen \in Covered \cap (0..Len(req[r].msgs \o a)) :
          tracker' = [tracker EXCEPT ![t] =
              [orig |-> req[r].msgs \o a, fwd |-> req[r].out \o Raw(a), frozen |-> frozen]]
    /\ alive' = IF t \in ToSet(alive) THEN Append(RemoveFirst(alive, t), t) ELSE alive
    /\ req' = [req EXCEPT ![r] = [Idle EXCEPT !.pc = "done"]]
    /\ UNCHANGED <<config, cache, stable, chain, overflow, job>>

\* The connection fails: nothing is recorded.
UpstreamFails(r) ==
    /\ req[r].pc = "sent"
    /\ req' = [req EXCEPT ![r] = [Idle EXCEPT !.pc = "done"]]
    /\ UNCHANGED <<config, cache, stable, tracker, alive, chain, overflow, job>>

-----------------------------------------------------------------------------
Next ==
    \/ \E r \in Requests :
          \/ \E m \in Histories : \E n \in 0..Len(alive) : Resolve(r, m, n)
          \/ SkipCompression(r)
          \/ Prepare(r) \/ TokenDone(r) \/ TokenFails(r)
          \/ CacheCold(r) \/ CacheNoDelta(r) \/ CacheDelta(r) \/ CacheDone(r)
          \/ Respond(r) \/ UpstreamFails(r)
    \/ BackgroundDone \/ BackgroundFails

Spec == Init /\ [][Next]_vars

-----------------------------------------------------------------------------
Bytes == [c : Contents, f : Forms]

\* The values each variable may have; the cache is within its limit, holds a
\* content once, and the last message of a request is never frozen.
TypeOK ==
    /\ mode \in Modes /\ cap \in Caps /\ recompact \in Recompacts /\ stable \subseteq ToolResults
    /\ \A e \in ToSet(cache) : e.h \in ToolResults /\ e.v \in Bytes /\ e.v.f # "raw"
    /\ Len(cache) <= MaxEntries /\ Cardinality(Keys) = Len(cache)
    /\ DOMAIN tracker \subseteq Requests
    /\ \A t \in DOMAIN tracker : /\ tracker[t].orig \in Seq(Contents)
                                 /\ tracker[t].fwd \in Seq(Bytes)
                                 /\ tracker[t].frozen \in 0..Len(tracker[t].orig)
    /\ ToSet(alive) \subseteq DOMAIN tracker /\ IsInjective(alive)
    /\ DOMAIN chain \subseteq ToSet(alive) /\ overflow \in Requests \cup {None}
    /\ \A r \in Requests : /\ req[r].tid \in DOMAIN tracker \cup {None}
                           /\ req[r].pc \in {"full", "fast"} => req[r].frozen < Len(req[r].msgs)

\* Whatever is forwarded for a message is a form of that message: sharing a
\* tracker, a cache or a record between conversations never swaps, drops or
\* adds content; and the cache holds no form of one content under another,
\* whichever of fast pass, full pass and background job stored it last.
ContentIntact ==
    /\ \A r \in Requests : req[r].pc = "sent" =>
          /\ Len(req[r].out) = Len(req[r].msgs)
          /\ \A i \in DOMAIN req[r].msgs : req[r].out[i].c = req[r].msgs[i]
    /\ \A e \in ToSet(cache) : e.v.c = e.h

\* No two lineages have recorded the same history: a conversation that goes on
\* has one tracker to go on with.
ChainsDistinct == IsInjective(chain)

\* As far as the history is the one on record, the bytes on record are sent
\* again, whatever became of compression, of the cache and of the requests
\* that overlapped.  There are two exceptions.  A cold turn replays nothing, by
\* design (anthropic.py:1616-1618).  And token mode reverts to the client's own
\* messages when the whole came out longer than they are, recorded prefix and
\* all: the guard is skipped only if the overlay changed something, while the
\* comment over it (anthropic.py:1648-1654) has it skipped whenever the cached
\* prefix is replayed, because to revert "would re-forward the uncompressed
\* prefix and BUST the live prompt cache".
PrefixReplayed ==
    [][\A r \in Requests : req[r].pc # "sent" /\ req'[r].pc = "sent" /\ ~req[r].cold =>
          LET t == tracker[req[r].tid]
              k == CommonPrefix(req[r].msgs, t)
              replay == IsPrefix(Upto(t.fwd, k), req'[r].out)
          IN  replay \/ /\ mode = "token"
                        /\ IsPrefix(Upto(t.fwd, k), req'[r].opt)
                        /\ CountMessages(req'[r].opt) > CountMessages(req'[r].out)
                        /\ req'[r].out = Raw(req[r].msgs)]_vars
=============================================================================
