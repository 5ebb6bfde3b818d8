-------------------------- MODULE ToolsProperties --------------------------
(***************************************************************************)
(* What the caches, the catalogues and the handlers owe a tool call.       *)
(***************************************************************************)
EXTENDS Tools

\* The catalogue that is kept for a time, if a tool's answers are made from one.
Reads(t)   == CASE t = "courts" -> "courts"
                [] t = "pools"  -> "pools"
                [] t \in {"estate", "estates"} -> "estates"
                [] OTHER -> "none"

Ok == answer.status = "ok"

\* Types: who waits for a catalogue is in its queue, once, and the head of a
\* queue is the only one that may be loading.
TypeOK ==
  /\ family \in Families /\ now \in 0 .. MaxTime /\ calls \in 0 .. MaxCalls
  /\ \A d \in Callers :
       /\ call[d].pc \in {"idle", "queued", "asking"}
       /\ call[d].pc = "queued" => \E i \in DOMAIN queue[call[d].req] :
                                     queue[call[d].req][i] = d
       /\ call[d].pc # "idle" => <<call[d].want, call[d].lang>> \in family
  /\ answer.status \in {"none", "ok", "error"}
  /\ \A k \in DOMAIN cache : cache[k].expires \in Nat
  /\ \A c \in Lookups :
       /\ cat[c].state \in {"unloaded", "empty", "full"} /\ cat[c].at <= now
       /\ queue[c] \in Seq(Callers)
       /\ \A i \in DOMAIN queue[c] :
            /\ call[queue[c][i]].req = c /\ call[queue[c][i]].pc # "idle"
            /\ i > 1 => call[queue[c][i]].pc = "queued"
            /\ \A j \in DOMAIN queue[c] : queue[c][i] = queue[c][j] => i = j

\* An answer was made no longer ago than its tool's results are kept, and one
\* made from a catalogue rests on rows no older than both times together: the
\* cache on top of the catalogue does not start the clock of the rows again,
\* whoever loaded them and whoever was answered in between.
YoungEnough ==
  Ok =>
    LET p == answer.result
        t == p.want[1]
    IN  /\ now - p.made <= Ttl[t]
        /\ Reads(t) # "none" => now - p.from < Ttl[t] + CatalogTtl

\* An answer is the answer to what was asked: the same tool and arguments,
\* whatever others asked meanwhile.  Another language comes only out of the
\* cache, whose key leaves the language out.
AnswersItsQuestion ==
  Ok =>
    /\ answer.result.want = answer.want
    /\ answer.result.lang \in {"any", answer.lang} \/ answer.cached

\* No answer rests on an upstream that failed: not the call's own requests,
\* not a load another call made, not one that is still in the cache.  The
\* exceptions: a geocoder that fails has the next one asked, a feed that does
\* not parse is one without stations, and a body that says error passes for
\* an empty one where the handler does not look.
Excused(req, r) ==
  \/ req \in {"nominatim, from", "nominatim, to"}
  \/ req = "feed" /\ r = "notjson"
  \/ r = "error" /\ req \notin {"plan", "courts", "pools", "features"}
FailureIsNoAnswer ==
  Ok => \A f \in answer.result.heard : Excused(f[1], f[2])

\* That there is no court, pool or estate comes only from a call that loaded
\* the catalogue itself and found it empty: an empty catalogue is loaded again
\* by whoever reads it next, those who waited for it included, and only the
\* results made of it are kept for a while.  (The catalogue of stops is another
\* matter: an empty one stays.)
EmptyIsSeenFirstHand ==
  Ok => LET p == answer.result IN
        Reads(p.want[1]) # "none" /\ p.rows = "empty" => p.own

\* A catalogue is replaced only when it is no longer fresh: those who waited
\* while one of them loaded it do not load it again.
ReplacedOnlyWhenStale ==
  [][\A c \in Lookups : cat'[c] # cat[c] => ~Fresh(c)]_vars

\* Every call ends, also when the one that held the lock it waits for failed.
EveryCallEnds == \A d \in Callers : call[d].pc # "idle" ~> call[d].pc = "idle"

-----------------------------------------------------------------------------
(***************************************************************************)
(* tests/test_csdi.py: of five features, three are returned, "truncated by *)
(* caller-side limit", and the result says truncated -- an answer of a     *)
(* data set that leaves matching rows out says that it does.               *)
(***************************************************************************)
CompleteOrTold ==
  Ok => LET p == answer.result IN
        p.want[1] = "csdi" /\ p.about.lost => p.about.cut

=============================================================================
