---------------------------- MODULE EncodeCache -----------------------------
(***************************************************************************)
(* The disk cache of encoded parts (pan/data/encode-cache.cc), as operators *)
(* on a record: the index "info" (_mid_to_info), the "locks" (_locks) and   *)
(* the files on "disk".  Unlike the article cache it is emptied at startup, *)
(* finalize() runs in the encoder's thread, and what is in it is written in *)
(* place.  A key is a file name: the basename of the uploaded file with the *)
(* number of the part.                                                     *)
(***************************************************************************)
EXTENDS Naturals

CONSTANTS KEY, NoFile, Torn   \* Torn: opened, and not completely written

Empty == [info |-> {}, locks |-> [k \in KEY |-> 0],
          disk |-> [k \in KEY |-> NoFile]]

Add(cache, keys) == [cache EXCEPT !.info = @ \cup keys]

\* By each key's number of takers.
Reserve(cache, takers) ==
  [cache EXCEPT !.locks = [k \in KEY |-> @[k] + takers[k]]]

Release(cache, keys) ==
  [cache EXCEPT !.locks = [k \in KEY |-> IF k \in keys THEN @[k] - 1 ELSE @[k]]]

\* get_fp_from_mid opens with "wb+": what the file held is gone.
Opened(cache, k) == [cache EXCEPT !.disk[k] = Torn]

Finalized(cache, k, content) ==
  [cache EXCEPT !.disk[k] = content, !.info = @ \cup {k}]

Dropped(cache, keys) ==
  [cache EXCEPT !.info = @ \ keys,
                !.disk = [k \in KEY |-> IF k \in keys THEN NoFile ELSE @[k]]]

Unlocked(cache) == {k \in cache.info : cache.locks[k] = 0}

\* The results resize() can have.  How much it removes is left open: it goes by
\* _current_bytes, which the encoder's thread adds to without a lock, once more
\* for every part that is encoded again.
Resized(cache) == {Dropped(cache, old) : old \in SUBSET Unlocked(cache)}

\* clear() resizes to nothing.
Cleared(cache) == Dropped(cache, Unlocked(cache))
=============================================================================
