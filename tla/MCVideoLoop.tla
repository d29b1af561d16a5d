---------------------------- MODULE MCVideoLoop ----------------------------
(* A file nobody can read, an image, an image that is refused, a video with *)
(* an odd frame and a longer one; the third frame may have another size,    *)
(* and two frames may be the limit.                                         *)
EXTENDS VideoLoop

A(kind, frames, odd) == [kind |-> kind, frames |-> frames, odd |-> odd]

MCMedia ==
  {A("no_uri", 0, {}), A("unreadable", 0, {}), A("image", 1, {}), A("image", 1, {1}),
   A("video", 3, {2}), A("video", 3, {})}
=============================================================================
