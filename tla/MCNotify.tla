------------------------------ MODULE MCNotify ------------------------------
(* Instances of Notify for TLC.                                            *)
EXTENDS Notify

CONSTANTS a, b, nil

MCUuid == {a, b, nil}
MCCookie == {0, 1}
MCSrcId == {0, 1}

\* The messages that name receiver u, come from src, have a message-info word
\* of infos, a count of counts, and tuples of tuples.
MessagesOf(u, src, infos, counts, tuples) ==
  [src_id : {src}, receiver : {u}, msg_info : infos, count : counts,
   regs : [1 .. NOTIFY_MAX_TUPLES_PER_REQ -> tuples]]

T(cookies, ids) == [cookie : cookies, id : ids, ntype : {"Global"}]

\* Run notify: receiver a gets requests of every kind with every count (0, as
\* many as there are registers, and more), b single-tuple requests from either
\* endpoint, and nil competes with them for the entries.  Ids reach one beyond
\* the bitmap.
MCMessages ==
  MessagesOf(a, 1, {2, 3, 4, 5}, 0 .. NOTIFY_MAX_TUPLES_PER_REQ + 1,
             T({0}, 0 .. BITS) \cup T({1}, 1 .. BITS - 1))
  \cup UNION {MessagesOf(b, src, {0, 1, 4, 5, 6}, {1}, T({0}, {0, 1}))
              : src \in MCSrcId}
  \cup MessagesOf(nil, 1, {2}, {1}, T({1}, {BITS - 1}))

\* Run notify_bit0: single-tuple requests only, so that none repeats a cookie.
SingleTupleMessages ==
  UNION {MessagesOf(u, 1, {2, 3, 4, 5}, {1},
                    [cookie : MCCookie, id : 0 .. BITS - 1,
                     ntype : NotifyType]) : u \in {a, b}}
=============================================================================
