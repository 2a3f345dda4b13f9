----------------------------- MODULE MCUploads -----------------------------
(***************************************************************************)
(* Small instances of Uploads: a session of each mode with the requests    *)
(* that meet on it.                                                        *)
(***************************************************************************)
EXTENDS Uploads, TLC

CONSTANTS r1, r2, r3, r4, b1, b2, k

Ask(call, key, b) == [call |-> call, key |-> key, part |-> 1, bytes |-> b]

(* r1 opens the session, or has opened it.                                 *)
Meet(t, opener, modes, skips, a2, a3, a4) ==
  {[troubles |-> t, mode |-> m, skip |-> s, opener |-> opener,
    ask |-> r1 :> Ask("create", k, b1) @@ r2 :> a2 @@ r3 :> a3 @@ r4 :> a4] :
     m \in modes, s \in skips}

Single == {"d1", "r2"}
Multi == {"multipart"}
Body(key, b) == Ask("content", key, b)
Piece(b) == Ask("part", k, b)
Completion(key) == Ask("complete", key, b1)
Other(call, key) == Ask(call, key, b1)

ScenariosOf ==
  UNION {
    Meet(1, NoRequest, Multi, {FALSE},
         Other("resume", k), Piece(b1), Other("sweep", k)),
    Meet(1, NoRequest, Single, {FALSE},
         Other("create", k), Body(k, b1), Other("abort", AdHoc)),
    Meet(2, r1, Multi, {FALSE}, Piece(b1), Piece(b2), Completion(k)),
    Meet(2, r1, Multi, {TRUE}, Piece(b1), Completion(k), Completion(k)),
    Meet(1, r1, Multi, {FALSE}, Piece(b1), Completion(k), Other("abort", k)),
    Meet(1, r1, Multi, {FALSE}, Piece(b1), Completion(k), Other("sweep", k)),
    Meet(2, r1, Single, {TRUE}, Body(k, b1), Other("resume", k),
         Completion(AdHoc)),
    Meet(2, r1, Single, {FALSE}, Body(k, b1), Body(AdHoc, b2), Completion(k)),
    Meet(2, r1, Single, {FALSE}, Body(k, b1), Completion(k), Completion(k)),
    Meet(2, r1, Single, {FALSE}, Body(k, b1), Completion(k),
         Other("abort", AdHoc))}
=============================================================================
