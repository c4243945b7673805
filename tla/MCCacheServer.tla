--------------------------- MODULE MCCacheServer ---------------------------
(* CacheServer.tla with two callers, a server that takes one connection at *)
(* a time, and one retry.                                                  *)
EXTENDS CacheServer, TLC

CONSTANTS ann, bob, art, note, b1, b2, huge, vast

MCCallers == {ann, bob}
Do(kind, key, body) == [kind |-> kind, key |-> key, body |-> body]
MCPlays ==
  LET read == <<Do("get", art, Nothing)>>
      put(b) == <<Do("put", art, b)>>
  IN  { ann :> put(b1) @@ bob :> put(b2),
        ann :> put(b1) @@ bob :> read,
        ann :> put(huge) @@ bob :> read,
        ann :> put(vast) @@ bob :> read,
        ann :> <<Do("manifest", note, b1)>> @@ bob :> <<>> }
MCKeys == {art, note}
MCBodies == {b1, b2, huge, vast}
MCTooBig == {huge}
MCOverCap == {vast}
=============================================================================
