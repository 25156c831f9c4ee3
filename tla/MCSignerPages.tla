---------------------------- MODULE MCSignerPages ----------------------------
(* Every transaction the limits of transaction/types.h let pass. *)
EXTENDS SignerPagesReview

MCReviews == UNION {[1..n -> SignerShape] : n \in 1..MAX_TX_SIGNERS}
=============================================================================
