---------------------------- MODULE MCChangeSets ----------------------------
(***************************************************************************)
(* Small instances of ChangeSets: r1 proposes, the others propose the same *)
(* or another thing, approve and reject; w1 and w2 are commits of others.  *)
(***************************************************************************)
EXTENDS ChangeSets, TLC

CONSTANTS p1, p2, a, b, k1, r1, r2, r3, w1, w2

PutEntry(p, n, c) ==
  [op |-> "put", path |-> p, expected |-> n, content |-> c,
   fromPath |-> p, fromVersion |-> 0]
DeleteEntry(p, n) == [PutEntry(p, n, Tombstone) EXCEPT !.op = "delete"]
CopyEntry(p, n, from, m) ==
  [PutEntry(p, n, Tombstone) EXCEPT !.op = "copy", !.fromPath = from,
                                    !.fromVersion = m]
RollbackEntry(p, n, m) ==
  [PutEntry(p, n, Tombstone) EXCEPT !.op = "rollback", !.fromVersion = m]

Blank == [call |-> "create", entries |-> <<>>, expires |-> 0, since |-> 0,
          whole |-> FALSE, scope |-> {}, key |-> NoKey, set |-> NoRequest]

Propose(es, k) == [Blank EXCEPT !.entries = es, !.key = k]
Until(c, t) == [c EXCEPT !.expires = t]
AfterChange(c, n) == [c EXCEPT !.whole = TRUE, !.since = n]
AfterChangeIn(c, n, ps) == [c EXCEPT !.scope = ps, !.since = n]
Approve(s) == [Blank EXCEPT !.call = "approve", !.set = s]
RejectIt(s) == [Blank EXCEPT !.call = "reject", !.set = s]

Written(w, es) ==
  [id |-> w, entries |-> es, since |-> 0, whole |-> FALSE, scope |-> {},
   ledgerKey |-> NoKey, commitKey |-> NoKey, hash |-> NoHash]

(* A first version of one path, and a later change of either.              *)
WritesOf ==
  {Written(w1, <<PutEntry(p1, 0, a)>>), Written(w2, <<PutEntry(p2, 0, b)>>),
   Written(w2, <<DeleteEntry(p1, 1)>>)}

(* review: one of two proposals,   a twin or a rival of it under its key   *)
(* or a second approval, and an approval or rejection.                     *)
CopyOfFirst == AfterChangeIn(Propose(<<CopyEntry(p2, 0, p1, 1)>>, k1), 1, {p1})
ReviewCallsOf ==
  (r1 :> {CopyOfFirst,
          AfterChange(Until(
            Propose(<<DeleteEntry(p1, 1), PutEntry(p2, 0, b)>>, k1), 1), 1)})
  @@ (r2 :> {CopyOfFirst, Propose(<<RollbackEntry(p1, 1, 1)>>, k1),
             Approve(r1)})
  @@ (r3 :> {Approve(r1), RejectIt(r1)})

(* prefix_fence: a proposal fenced on p1, while p2 is written.             *)
PrefixCallsOf ==
  (r1 :> {AfterChangeIn(Propose(<<PutEntry(p1, 1, b)>>, NoKey), 1, {p1})})
  @@ (r2 :> {Approve(r1)}) @@ (r3 :> {RejectIt(r1)})
=============================================================================
