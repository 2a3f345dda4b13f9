---------------------------- MODULE MCStashStore ----------------------------
(***************************************************************************)
(* Small instances of StashStore.  Each run gives every request a few      *)
(* calls to choose from; which one arrives, and when, is left open.        *)
(***************************************************************************)
EXTENDS StashStore, TLC

CONSTANTS p1, p2, a, b, k1, k2, r1, r2, r3, r4

Blank == [call |-> "commit", entries |-> <<>>, skip |-> FALSE, since |-> 0,
          whole |-> FALSE, scope |-> {}, target |-> NoRequest,
          onto |-> "commit", key |-> NoKey]

PutEntry(p, n, c) ==
  [op |-> "put", path |-> p, expected |-> n, content |-> c,
   fromPath |-> p, fromVersion |-> 0]
DeleteEntry(p, n) == [PutEntry(p, n, Tombstone) EXCEPT !.op = "delete"]
CopyEntry(p, n, from, m) ==
  [PutEntry(p, n, Tombstone) EXCEPT !.op = "copy", !.fromPath = from,
                                    !.fromVersion = m]
RollbackEntry(p, n, m) ==
  [PutEntry(p, n, Tombstone) EXCEPT !.op = "rollback", !.fromVersion = m]

Single(e, k) == [Blank EXCEPT !.call = e.op, !.entries = <<e>>, !.key = k]
Skipping(c) == [c EXCEPT !.skip = TRUE]
Commit(es, k) == [Blank EXCEPT !.entries = es, !.key = k]
AfterChange(c, n) == [c EXCEPT !.whole = TRUE, !.since = n]
AfterChangeIn(c, n, ps) == [c EXCEPT !.scope = ps, !.since = n]
Revert(r, onto, k) ==
  [Blank EXCEPT !.call = "revert", !.target = r, !.onto = onto, !.key = k]

BodiesOf(calls) == {Body(c) : c \in UNION {calls[r] : r \in DOMAIN calls}}

AllMayMake(calls) == [r \in Requests |-> calls]

SomeRequest == Permutations(Requests)

(* single_path: any three of these writes to one path, under two keys.     *)
SingleCallsOf == AllMayMake(
  {Single(PutEntry(p1, 0, a), k1), Skipping(Single(PutEntry(p1, 0, b), NoKey)),
   Single(PutEntry(p1, 1, b), k1), Skipping(Single(PutEntry(p1, 1, a), NoKey)),
   Single(PutEntry(p1, 2, a), k2),
   Single(DeleteEntry(p1, 1), k1), Single(DeleteEntry(p1, 1), k2),
   Single(DeleteEntry(p1, 2), NoKey), Single(RollbackEntry(p1, 1, 1), k2),
   Single(RollbackEntry(p1, 2, 1), k2), Single(RollbackEntry(p1, 2, 2), k1)})
SingleHashes == BodiesOf(SingleCallsOf)

(* commits: any three of these writes of two paths, with copies, deletions *)
(* and both forms of the expectedLastChangeId fence.                       *)
CommitCallsOf == AllMayMake(
  {Commit(<<PutEntry(p1, 0, a), PutEntry(p2, 0, b)>>, k1),
   Single(PutEntry(p1, 0, a), k1),
   AfterChange(Commit(<<PutEntry(p1, 1, b), DeleteEntry(p2, 1)>>, k1), 2),
   AfterChangeIn(Commit(<<CopyEntry(p2, 0, p1, 1)>>, k2), 1, {p1}),
   AfterChange(Commit(<<PutEntry(p2, 0, a)>>, NoKey), 0),
   Commit(<<DeleteEntry(p1, 1), RollbackEntry(p2, 2, 1)>>, k2),
   AfterChangeIn(Commit(<<PutEntry(p2, 1, a)>>, NoKey), 2, {p2}),
   Single(DeleteEntry(p1, 1), k2),
   Commit(<<CopyEntry(p2, 1, p1, 2)>>, NoKey)})
CommitHashes == BodiesOf(CommitCallsOf)

(* revert: a commit of two paths, writes on top of it, and reverts of      *)
(* both in either mode, repeated under their keys.                         *)
RevertCallsOf ==
  (r1 :> {Commit(<<PutEntry(p1, 0, a), PutEntry(p2, 0, b)>>, k1)})
  @@ (r2 :> {Single(DeleteEntry(p1, 1), NoKey), Single(PutEntry(p1, 1, b), k1),
             Commit(<<PutEntry(p1, 1, b), DeleteEntry(p2, 1)>>, NoKey),
             Revert(r1, "head", k2)})
  @@ (r3 :> {Revert(r1, "commit", k2), Revert(r1, "head", k2),
             Revert(r2, "commit", k1), Revert(r2, "head", k2)})
  @@ (r4 :> {Revert(r1, "head", k2), Revert(r2, "head", k2),
             Revert(r3, "commit", NoKey), Revert(r2, "commit", NoKey),
             Single(PutEntry(p1, 1, b), k1)})
RevertHashes == BodiesOf(RevertCallsOf)

(* revert_repeat: the revert of a commit that created one path and         *)
(* overwrote the other, twice under one key.                               *)
RepeatCallsOf ==
  (r1 :> {Single(PutEntry(p2, 0, a), NoKey)})
  @@ (r2 :> {Commit(<<PutEntry(p1, 0, a), PutEntry(p2, 1, b)>>, NoKey)})
  @@ (r3 :> {Revert(r2, "head", k2)})
  @@ (r4 :> {Revert(r2, "head", k2)})
RepeatHashes == BodiesOf(RepeatCallsOf)

(* revert_skip: a path that the revert finds deleted is written again.     *)
SkipCallsOf ==
  (r1 :> {Commit(<<PutEntry(p1, 0, a), PutEntry(p2, 0, b)>>, NoKey)})
  @@ (r2 :> {Single(DeleteEntry(p1, 1), NoKey)})
  @@ (r3 :> {Revert(r1, "head", NoKey)})
  @@ (r4 :> {Single(PutEntry(p1, 2, b), NoKey)})
SkipHashes == BodiesOf(SkipCallsOf)
=============================================================================
