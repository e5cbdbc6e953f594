------------------------------- MODULE Option -------------------------------
(* Rust's Option::None: an absent content, edition, version, entry, branch. *)
CONSTANT None
=============================================================================
