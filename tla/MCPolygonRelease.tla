-------------------------- MODULE MCPolygonRelease --------------------------
(* A bounded instance of PolygonRelease for TLC. *)
EXTENDS PolygonRelease, TLC

Symmetry == Permutations(Builders)

\* An export shares only the committed files with a dbt build and with a
\* verification: the instance leaves out that they overlap.
NoOverlap ==
  exporter.pc # "idle" =>
    dbt = "idle" /\ \A b \in Builders : builder[b].pc # "open"

\* A third fault is for the first release alone: an edit of the seed, its revert
\* and a dbt build that dies between the new sidecar and the new mart.
ThirdFault ==
  faults = 3 =>
    /\ canonical = 1 /\ run[1].status = "not_requested" /\ exporter.pc = "idle"
    /\ \A v \in Versions :
         /\ audits[v].serial = Len(built) /\ exports[v] = NoExport
         /\ audits[v] # NoAudit => audits[v].files = built[audits[v].serial]

Fill(side, at, shares, collateral, derived) ==
  [side |-> side, at |-> at, shares |-> shares, collateral |-> collateral, derived |-> derived]

\* Two minutes of two instants: a mint whose legs tie between two units, trades
\* of one token whose average falls between their prices and volumes whose sum has
\* no exact ratio.
Mint   == <<Fill("no", 1, 4, 1, FALSE), Fill("yes", 1, 4, 3, TRUE)>>
Trades == <<Fill("yes", 0, 3, 2, FALSE), Fill("yes", 1, 3, 3, FALSE),
            Fill("yes", 1, 1, 1, FALSE), Fill("yes", 3, 3, 1, FALSE)>>
Huge   == <<Fill("yes", 2, 6, 2, FALSE), Fill("yes", 3, 6, 3, FALSE)>>

ASSUME ValidatorsFollowTheGate

\* Whatever two fills the gate lets through, the validators accept.
ASSUME
  \A one, other \in [side : Sides, at : 0 .. 3, shares : 1 .. 5, collateral : 1 .. 5, derived : {FALSE}] :
    GateSuffices(<<one>>) /\ (one.at =< other.at => GateSuffices(<<one, other>>))

MCFillLists == [s \in Scans |-> IF s = 1 THEN {Mint} ELSE {Trades, Huge}]

\* The third seed differs from the first in columns that no row carries.
MCIdentityOf == [s \in Seeds |-> IF s = 3 THEN 1 ELSE s]

\* The reviewed pair; two edits that keep the declared hash, one of them in
\* columns that no row carries; a new seed whose attestation is still the old one.
MCDrafts == {[content |-> 1, declared |-> 1, attested |-> 1],
             [content |-> 2, declared |-> 1, attested |-> 1],
             [content |-> 3, declared |-> 1, attested |-> 1],
             [content |-> 2, declared |-> 2, attested |-> 1]}
=============================================================================
