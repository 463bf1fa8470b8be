-------------------------- MODULE MCFrameExtractor --------------------------
EXTENDS FrameExtractor

P(pic, part, idrNAL, marker) == [pic |-> pic, part |-> part, idr |-> idrNAL, marker |-> marker]

(* Parameter sets and an IDR slice in three fragments; an IDR picture of a *)
(* whole and a fragmented slice; a picture that is not IDR; an IDR picture *)
(* of two slices.                                                          *)
Pictures ==
    << P(1, "whole", FALSE, FALSE), P(1, "start", TRUE, FALSE), P(1, "middle", TRUE, FALSE), P(1, "end", TRUE, TRUE),
       P(2, "whole", TRUE, FALSE), P(2, "start", TRUE, FALSE), P(2, "end", TRUE, TRUE),
       P(3, "whole", FALSE, TRUE),
       P(4, "whole", TRUE, FALSE), P(4, "whole", TRUE, TRUE) >>
=============================================================================
