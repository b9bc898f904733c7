----------------------------- MODULE RateLimit -----------------------------
(***************************************************************************)
(* InMemoryRateLimiter for one key (core/rate_limit.py): a sliding window  *)
(* over the times of the hits it let through.  hit() does not wait between *)
(* reading the clock and recording the hit, so calls are atomic in the     *)
(* event loop.                                                             *)
(***************************************************************************)
EXTENDS Integers, Sequences, FiniteSetsExt

CONSTANTS
  Limit,       \* limit
  Window,      \* window_seconds
  LastTick,    \* bound: the clock stops there
  MaxHits      \* bound: calls of hit

ASSUME LimitConstants == Limit \in Nat \ {0} /\ Window \in Nat /\ LastTick \in Nat /\ MaxHits \in Nat

VARIABLES
  tick,     \* time.monotonic()
  bucket,   \* self._hits[key]
  log       \* every hit so far: [time, accepted]

limitVars == <<tick, bucket, log>>

LimitInit == tick = 0 /\ bucket = <<>> /\ log = {}

Hits == [time : 0..LastTick, n : Nat, accepted : BOOLEAN]

\* A variant of FirstKept that forgets hits that are exactly one window old.
FirstKeptShort(hits) ==
  Min({i \in 1..Len(hits) : hits[i] > tick - Window} \cup {Len(hits) + 1})

\* The hits are in the order of their times: those older than the window are popped
\* from the left, up to the first that is not.
FirstKept(hits) ==
  Min({i \in 1..Len(hits) : hits[i] >= tick - Window} \cup {Len(hits) + 1})

Kept(hits) == SubSeq(hits, FirstKept(hits), Len(hits))

Elapse == tick < LastTick /\ tick' = tick + 1 /\ UNCHANGED <<bucket, log>>

Logged(accepted) ==
  /\ Cardinality(log) < MaxHits
  /\ log' = log \cup {[time |-> tick, n |-> Cardinality(log), accepted |-> accepted]}

HitAccepted ==
  /\ Len(Kept(bucket)) < Limit
  /\ bucket' = Append(Kept(bucket), tick)
  /\ Logged(TRUE)
  /\ UNCHANGED tick

HitRefused ==
  /\ Len(Kept(bucket)) >= Limit
  /\ bucket' = Kept(bucket)
  /\ Logged(FALSE)
  /\ UNCHANGED tick

LimitNext == Elapse \/ HitAccepted \/ HitRefused

LimitSpec == LimitInit /\ [][LimitNext]_limitVars

-----------------------------------------------------------------------------
LimitTypeOK ==
  /\ tick \in 0..LastTick
  /\ bucket \in Seq(0..LastTick)
  /\ log \subseteq Hits

\* The accepted hits that precede hit h by at most a window.
Recent(h) == {g \in log : g.accepted /\ g.n < h.n /\ g.time >= h.time - Window}

\* A hit is refused exactly if the limit was used up within the window before it:
\* refused hits neither count nor prolong the refusal.
LimitIsExact == \A h \in log : h.accepted <=> Cardinality(Recent(h)) < Limit
=============================================================================
