---------------------------- MODULE MCCollection ----------------------------
(***************************************************************************)
(* Small instances of Collection: which writers meet which collectors.     *)
(***************************************************************************)
EXTENDS Collection, TLC

CONSTANTS c1, c2

Makes(mode, h) == [mode |-> mode, content |-> h]
Runs(kind, sort) == [kind |-> kind, sort |-> sort, cursor |-> NoCursor]
After(kind, phase, x) ==
  [kind |-> kind, sort |-> "manual", cursor |-> [phase |-> phase, after |-> x]]

(* Two writers and two collectors.                                         *)
Meet(t, a1, a2, p1, p2) ==
  [ask |-> (1 :> a1) @@ (2 :> a2), plan |-> c1 :> p1 @@ c2 :> p2, troubles |-> t]

Cron(kind) == Runs(kind, "scheduled")

None == Makes("none", 1)

ScenariosOf ==
  {Meet(1, Makes("orphan", 1), Makes("write", 1),
        Cron("r2-orphans"), Cron("r2-orphans")),
   Meet(0, Makes("write", 1), Makes("upload", 1),
        Cron("r2-orphans"), Cron("r2-orphans")),
   Meet(0, Makes("multipart", 1), Makes("write", 1),
        Cron("r2-orphans"), After("r2-orphans", "objects", 1)),
   Meet(0, Makes("proposal", 1), Makes("write", 1),
        Cron("r2-orphans"), Cron("content")),
   Meet(0, Makes("proposal", 2), Makes("upload", 2),
        Cron("content"), Runs("content", "dry")),
   Meet(1, Makes("proposal", 1), None, Cron("change-sets"), Cron("content")),
   Meet(1, Makes("proposal", 2), None, Cron("content"), Cron("content"))}
=============================================================================
