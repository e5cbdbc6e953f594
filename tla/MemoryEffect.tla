---------------------------- MODULE MemoryEffect ----------------------------
(***************************************************************************)
(* The memory capability of dialog-db: one named cell holds at most one    *)
(* value, and the value is replaced by compare-and-swap.  This module has  *)
(* no state.  It defines what one Resolve, Publish or Retract effect does  *)
(* to the content of a cell, which every provider (volatile, file system,  *)
(* IndexedDB) computes in the same way.                                    *)
(*                                                                         *)
(* A version is the BLAKE3 hash of the content.  All that the code relies  *)
(* on is that distinct contents have distinct versions, so the hash is     *)
(* modelled by a record that wraps the content it identifies: it is        *)
(* injective, and it is never equal to the content itself.                 *)
(***************************************************************************)

EXTENDS Option

\* Blake3Hash::hash(content), as a Version.
Version(content) == [blake3 |-> content]

\* The version of an optional content: the `current_edition` of a provider.
VersionOf(current) == IF current = None THEN None ELSE Version(current)

\* Mutant of EditionOf: the stored bytes are returned without their version.
EditionUnversioned(current) ==
    IF current = None THEN None ELSE [content |-> current, version |-> None]

\* What Provider<Resolve> answers: nothing, or the content with its version.
EditionOf(current) ==
    IF current = None
    THEN None
    ELSE [content |-> current, version |-> Version(current)]

\* Mutant of PublishAccepted: no precondition means "whatever is there".
PublishUnconditional(current, content, when) ==
    VersionOf(current) = Version(content) \/ when \in {None, VersionOf(current)}

(***************************************************************************)
(* Provider<Publish>.  A cell that already holds the desired content       *)
(* accepts whatever the precondition says; otherwise the precondition      *)
(* `when` must name the current version, None standing for "no content".   *)
(***************************************************************************)
PublishAccepted(current, content, when) ==
    \/ VersionOf(current) = Version(content)
    \/ when = VersionOf(current)

AfterPublish(current, content, when) ==
    IF PublishAccepted(current, content, when) THEN content ELSE current

(***************************************************************************)
(* Provider<Retract>.  An absent cell is already retracted; otherwise      *)
(* `when` (never None here) must name the current version.                 *)
(***************************************************************************)
RetractAccepted(current, when) ==
    \/ current = None
    \/ when = VersionOf(current)

AfterRetract(current, when) ==
    IF RetractAccepted(current, when) THEN None ELSE current
=============================================================================
