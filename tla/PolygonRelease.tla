--------------------------- MODULE PolygonRelease ---------------------------
(***************************************************************************)
(* From a published Polygon settlement scan to the exported CSV: the dbt   *)
(* build that turns raw fills into the minute mart behind a quality gate,  *)
(* the builders of immutable audit releases (which may first verify the    *)
(* scan against a second provider), and the exporter that copies an audit  *)
(* release out as a sanitized dataset.                                     *)
(*                                                                         *)
(* The warehouse is one DuckDB file: a process that writes holds it alone, *)
(* readers share it.  The scan itself is module PolygonSettlement; here it *)
(* is one step that leaves a published run and its fills.  A file's        *)
(* SHA-256 is the file's content.                                          *)
(***************************************************************************)
EXTENDS Integers, Sequences, FiniteSets, SequencesExt, FiniteSetsExt

CONSTANTS
  Scans,         \* scan identifiers 1 .. n, in the order they are published
  FillLists,     \* scan -> what it may find: sequences of fills in chain order
  Seeds,         \* logical contents of the market seed
  IdentityOf,    \* seed -> the columns of it that a row of the mart carries
  Drafts,        \* the (seed file, attestation) pairs that get committed
  Versions,      \* dataset versions of releases
  Builders,      \* processes that build an audit release
  WindowMinutes, \* minutes of the analysis window
  MinuteLength,  \* instants in a minute
  Scale,         \* units of a price of one
  MaxRatio,      \* largest volume whose ratio is exact
  MaxBuilds,     \* releases built and being built
  MaxFaults      \* seed commits, killed builds and edits by hand, together

ASSUME ReleaseAssumption ==
  /\ WindowMinutes \in Nat \ {0} /\ MinuteLength \in Nat \ {0}
  /\ Scale \in Nat \ {0} /\ MaxRatio \in Nat \ {0}
  /\ IsFiniteSet(Scans) /\ Scans = 1 .. Cardinality(Scans)
  /\ Drafts \subseteq [content : Seeds, declared : Seeds, attested : Seeds]

VARIABLES
  draft,      \* [content, declared, attested] of the committed seed and attestation
  run,        \* scan -> NoScan or [seed, fills, status]
  canonical,  \* the scan whose fills are the raw table, 0 when there is none
  sidecar,    \* the seed as last loaded into the warehouse
  candidate, quality, mart,   \* dbt tables, NoTable until they are built
  dbt,        \* the step the running dbt build takes next, "idle" without one
  builder,    \* builder -> [pc, version, secondary, work]
  exporter,   \* [pc, version, serial, copied, work]
  audits, exports,            \* release directories by version
  built,      \* every audit release as it was renamed into place
  verdict,    \* scan -> what its last completed verification found
  tornMart,   \* the mart predates the quality row beside it, after a kill
  rejected,   \* a validator refused the values of a mart row
  faults      \* seed commits, kills and edits so far

warehouse == <<run, canonical, sidecar, candidate, quality, mart>>
releases  == <<audits, exports, built>>
history   == <<verdict, tornMart, rejected>>
release == <<draft, warehouse, dbt, builder, exporter, releases, history, faults>>

NoScan    == [seed |-> 0]
NoTable  == [scan |-> 0]
NoAudit  == [serial |-> 0]
NoExport == [serial |-> 0]
Nothing  == [serial |-> 0]
Statuses == {"not_requested", "matched", "mismatched", "error"}
Sides    == {"yes", "no"}
Minutes  == 0 .. WindowMinutes - 1

-----------------------------------------------------------------------------
(* Prices and the minute rows of the mart.                                 *)

\* Scale * numerator / denominator to the nearest unit, a tie to the even one.
HalfEven(numerator, denominator) ==
  LET quotient  == (numerator * Scale) \div denominator
      remainder == (numerator * Scale) % denominator
      up == \/ remainder > denominator - remainder
            \/ remainder = denominator - remainder /\ quotient % 2 = 1
  IN  IF up THEN quotient + 1 ELSE quotient

\* The macro of the dbt models: no ratio (-1) beyond the exact range.
WarehouseRatio(numerator, denominator) ==
  IF numerator > MaxRatio \/ denominator > MaxRatio THEN -1
  ELSE HalfEven(numerator, denominator)

PriceOf(fill) == HalfEven(fill.collateral, fill.shares)

Unobserved == [observed |-> FALSE, count |-> 0, derived |-> 0, shares |-> 0,
               collateral |-> 0, open |-> -1, high |-> -1, low |-> -1,
               close |-> -1, vwap |-> -1, first |-> -1, last |-> -1]

\* One outcome token's fills of one minute, in chain order, as a row.
TotalOf(S(_), fills) == FoldSeq(LAMBDA fill, sum : S(fill) + sum, 0, fills)

SideRow(fills) ==
  IF fills = <<>> THEN Unobserved
  ELSE LET shares     == TotalOf(LAMBDA fill : fill.shares, fills)
           collateral == TotalOf(LAMBDA fill : fill.collateral, fills)
           prices     == {PriceOf(fills[i]) : i \in DOMAIN fills}
           times      == {fills[i].at : i \in DOMAIN fills}
       IN  [observed   |-> TRUE,
            count      |-> Len(fills),
            derived    |-> Cardinality({i \in DOMAIN fills : fills[i].derived}),
            shares     |-> shares,
            collateral |-> collateral,
            open       |-> PriceOf(Head(fills)),
            high       |-> Max(prices),
            low        |-> Min(prices),
            close      |-> PriceOf(Last(fills)),
            vwap       |-> WarehouseRatio(collateral, shares),
            first      |-> Min(times),
            last       |-> Max(times)]

\* Every minute of the window has a row, with or without fills.
MinuteRows(fills) ==
  [minute \in Minutes |-> [side \in Sides |->
     SideRow(SelectSeq(fills, LAMBDA fill :
               fill.side = side /\ fill.at \div MinuteLength = minute))]]

-----------------------------------------------------------------------------
(* The validators of a mart row.                                           *)

\* The state check of the dbt gate.
StateIsSound(row) ==
  IF row.observed
  THEN /\ row.derived =< row.count /\ row.count > 0
       /\ row.shares > 0 /\ row.collateral > 0
       /\ -1 \notin {row.open, row.high, row.low, row.close, row.vwap}
       /\ row.first =< row.last
  ELSE row = Unobserved

\* The check of the audit builder, which the exporter repeats in SQL.
SideIsValid(row, minute) ==
  IF row.observed
  THEN /\ StateIsSound(row) /\ row.collateral =< row.shares
       /\ \A price \in {row.open, row.close, row.vwap} :
            row.low =< price /\ price =< row.high
       /\ 0 =< row.low /\ row.high =< Scale
       /\ minute * MinuteLength =< row.first
       /\ row.last < (minute + 1) * MinuteLength
       /\ row.count = 1 => row.first = row.last
  ELSE row = Unobserved

\* The exporter's own arithmetic on the cells of the CSV.
RowMathHolds(row) ==
  row.observed =>
    /\ row.vwap = HalfEven(row.collateral, row.shares)
    /\ row.count = 1 => Cardinality({row.open, row.high, row.low, row.close, row.vwap}) = 1

ValuesAreValid(fills) ==
  \A minute \in Minutes, side \in Sides : SideIsValid(MinuteRows(fills)[minute][side], minute)

MathHolds(fills) ==
  \A minute \in Minutes, side \in Sides : RowMathHolds(MinuteRows(fills)[minute][side])

\* The gate: fills there are and every one of them is in a row of the window
\* and sound, and the rows are sound.
FillsPass(fills) ==
  LET rows == MinuteRows(fills)
  IN  /\ fills # <<>>
      /\ \A i \in DOMAIN fills : fills[i].collateral \in 1 .. fills[i].shares
                                 /\ fills[i].shares =< MaxRatio
      /\ \A minute \in Minutes, side \in Sides : StateIsSound(rows[minute][side])
      /\ TotalOf(LAMBDA fill : 1, fills)
           = MapThenSumSet(LAMBDA at : rows[at[1]][at[2]].count, Minutes \X Sides)

\* And the scan was made with the seed's manifest.
GateIsReady(table, seed) == FillsPass(table.fills) /\ seed.declared = run[table.scan].seed

\* What the validators make of rows that the gate let through.
GateSuffices(fills) == FillsPass(fills) => ValuesAreValid(fills) /\ MathHolds(fills)

ValidatorsFollowTheGate == \A s \in Scans : \A fills \in FillLists[s] : GateSuffices(fills)

-----------------------------------------------------------------------------
ReleaseInit ==
  /\ draft \in {d \in Drafts : d.content = d.declared /\ d.attested = d.content}
  /\ run = [s \in Scans |-> NoScan]
  /\ canonical = 0 /\ sidecar = NoTable
  /\ candidate = NoTable /\ quality = NoTable /\ mart = NoTable
  /\ dbt = "idle"
  /\ builder = [b \in Builders |-> [pc |-> "idle", work |-> Nothing]]
  /\ exporter = [pc |-> "idle", work |-> Nothing]
  /\ audits = [v \in Versions |-> NoAudit] /\ exports = [v \in Versions |-> NoExport]
  /\ built = <<>>
  /\ verdict = [s \in Scans |-> "not_requested"]
  /\ tornMart = FALSE /\ rejected = FALSE
  /\ faults = 0

\* The committed file loads: what it declares is what it holds.
Loads == draft.content = draft.declared

\* The attestation, which can be read on its own, is of the committed file.
Attested == draft.attested = draft.content

\* A process that writes needs the warehouse to itself.  A builder keeps its
\* connection until its release is in place.
Readers == {b \in Builders : builder[b].pc # "idle"}

Writers == {b \in Readers : builder[b].secondary}

WarehouseIsFree == dbt = "idle" /\ Readers = {}

CanRead == dbt = "idle" /\ Writers = {}

\* A seed and an attestation are committed, reviewed or not.
CommitSeed(d) ==
  /\ faults < MaxFaults /\ d # draft
  /\ draft' = d /\ faults' = faults + 1
  /\ UNCHANGED <<warehouse, dbt, builder, exporter, releases, history>>

\* A scan is published: its fills replace the raw table.  The seed must load.
PublishScan(s, fills) ==
  /\ WarehouseIsFree /\ run[s] = NoScan /\ s = canonical + 1
  /\ Loads
  /\ run' = [run EXCEPT ![s] = [seed |-> draft.content, fills |-> fills,
                                status |-> "not_requested"]]
  /\ canonical' = s
  /\ UNCHANGED <<draft, sidecar, candidate, quality, mart, dbt, builder, exporter,
                 releases, history, faults>>

-----------------------------------------------------------------------------
(* The dbt build, table by table.                                          *)

DbtSeed ==
  /\ WarehouseIsFree /\ canonical > 0
  /\ sidecar' = [scan |-> canonical, content |-> draft.content, declared |-> draft.declared]
  /\ dbt' = "candidate"
  /\ UNCHANGED <<draft, run, canonical, candidate, quality, mart, builder, exporter,
                 releases, history, faults>>

DbtCandidate ==
  /\ dbt = "candidate"
  /\ candidate' = [scan |-> canonical, identity |-> IdentityOf[sidecar.content],
                   fills |-> run[canonical].fills]
  /\ dbt' = "quality"
  /\ UNCHANGED <<draft, run, canonical, sidecar, quality, mart, builder, exporter,
                 releases, history, faults>>

\* The issues and the one-row summary with the gate's verdict.
DbtQuality ==
  /\ dbt = "quality"
  /\ quality' = [scan   |-> canonical,
                 ready  |-> GateIsReady(candidate, sidecar),
                 issues |-> IF run[canonical].status = "matched" THEN {} ELSE {"verification"}]
  /\ dbt' = "mart"
  /\ UNCHANGED <<draft, run, canonical, sidecar, candidate, mart, builder, exporter,
                 releases, history, faults>>

\* The gate view raises when the summary is not ready: the mart stays as it was.
\* The candidate rows stay too, but only the next build looks at them, which
\* replaces them first.
DbtMart ==
  /\ dbt = "mart"
  /\ IF quality.ready THEN mart' = candidate /\ tornMart' = FALSE ELSE UNCHANGED <<mart, tornMart>>
  /\ dbt' = "idle" /\ candidate' = NoTable
  /\ UNCHANGED <<draft, run, canonical, sidecar, quality, builder, exporter,
                 releases, verdict, rejected, faults>>

\* The build dies; the tables it replaced stay replaced.
KillDbt ==
  /\ dbt # "idle" /\ faults < MaxFaults
  /\ dbt' = "idle" /\ candidate' = NoTable /\ faults' = faults + 1
  /\ tornMart' = (tornMart \/ dbt = "mart")
  /\ UNCHANGED <<draft, run, canonical, sidecar, quality, mart, builder, exporter, releases, verdict, rejected>>

-----------------------------------------------------------------------------
(* A builder: open, verify when a second provider is configured, build in  *)
(* a temporary directory, rename.                                          *)

\* secondary: whether a second provider is configured.
OpenRelease(b, v, secondary) ==
  /\ builder[b].pc = "idle" /\ canonical > 0
  /\ Len(built) + Cardinality(Readers) < MaxBuilds
  /\ IF secondary THEN WarehouseIsFree ELSE CanRead
  /\ builder' = [builder EXCEPT ![b] =
       [pc |-> IF secondary THEN "open" ELSE "provenance",
        version |-> v, secondary |-> secondary, work |-> Nothing]]
  /\ UNCHANGED <<draft, warehouse, dbt, exporter, releases, history, faults>>

\* What the comparison of the scan's chunks comes to.  A provider that fails or
\* is the one that was scanned is an error; so is a seed that does not load.
Outcomes == IF Loads THEN {"matched", "mismatched", "error"}
            ELSE {"error"}

\* The status is stored on the run whatever it is: an earlier one is replaced.
Verify(b, outcome) ==
  /\ builder[b].pc = "open" /\ outcome \in Outcomes
  /\ verdict' = [verdict EXCEPT ![canonical] = outcome]
  /\ run' = [run EXCEPT ![canonical].status = outcome]
  /\ builder' = [builder EXCEPT ![b].pc = "provenance"]
  /\ UNCHANGED <<draft, canonical, sidecar, candidate, quality, mart, dbt, exporter,
                 releases, tornMart, rejected, faults>>

\* The verification issue is in the list exactly when the status is no match.
Reconciled(issues, status) ==
  (issues \ {"verification"}) \cup IF status = "matched" THEN {} ELSE {"verification"}

\* The committed seed, the scan's, the warehouse's and the attested one agree.
SeedAgrees ==
  /\ Loads /\ Attested
  /\ draft.declared = run[canonical].seed
  /\ sidecar # NoTable
  /\ sidecar.content = draft.content /\ sidecar.declared = draft.declared

\* The mart is there, its rows carry the sidecar's identity columns (token
\* identifiers are not among them), and the quality row beside it is ready and
\* of the scan.
AnyScanRows ==
  /\ mart # NoTable /\ mart.identity = IdentityOf[sidecar.content]
  /\ quality # NoTable /\ quality.ready

TablesAgree ==
  /\ mart # NoTable /\ mart.identity = IdentityOf[sidecar.content]
  /\ quality # NoTable /\ quality.ready /\ quality.scan = canonical

\* What the warehouse says of the published scan.
Provenance == [scan |-> canonical, seed |-> run[canonical].seed,
               status |-> run[canonical].status]

\* The files of the bundle; the checksum file lists the others.
BundleOf(v) ==
  LET status == Provenance.status
      csv    == [version |-> v, identity |-> mart.identity, fills |-> mart.fills]
      provenance == [version |-> v, attested |-> draft.attested, csv |-> csv,
                     scan |-> Provenance.scan, seed |-> Provenance.seed, status |-> status]
      report == [status |-> status, ready |-> quality.ready,
                 issues |-> Reconciled(quality.issues, status)]
  IN  [csv |-> csv, provenance |-> provenance, quality |-> report,
       sidecar |-> sidecar.content,
       checksums |-> [csv |-> csv, provenance |-> provenance]]

\* The checks that come before the rows are looked at.
Releasable(v) ==
  /\ run[canonical].fills # <<>>
  /\ SeedAgrees /\ audits[v] = NoAudit /\ TablesAgree

\* The bundle is written to a temporary directory.
BuildRelease(b) ==
  LET v == builder[b].version IN
  /\ builder[b].pc = "provenance"
  /\ Releasable(v) /\ ValuesAreValid(mart.fills)
  /\ builder' = [builder EXCEPT ![b].pc = "built", ![b].work = BundleOf(v)]
  /\ UNCHANGED <<draft, warehouse, dbt, exporter, releases, history, faults>>

\* Any check fails: the temporary directory is removed and nothing is left.
Refuse(b) ==
  LET v == builder[b].version IN
  /\ builder[b].pc = "provenance"
  /\ ~ (Releasable(v) /\ ValuesAreValid(mart.fills))
  /\ rejected' = (rejected \/ Releasable(v))
  /\ builder' = [builder EXCEPT ![b] = [pc |-> "idle", work |-> Nothing]]
  /\ UNCHANGED <<draft, warehouse, dbt, exporter, releases, verdict, tornMart, faults>>

\* rename(2) of a directory onto one that is not empty fails.
ReplaceAudit(b) ==
  LET v == builder[b].version IN
  /\ builder[b].pc = "built"
  /\ built' = Append(built, builder[b].work)
  /\ audits' = [audits EXCEPT ![v] = [serial |-> Len(built) + 1, files |-> builder[b].work]]
  /\ builder' = [builder EXCEPT ![b] = [pc |-> "idle", work |-> Nothing]]
  /\ UNCHANGED <<draft, warehouse, dbt, exporter, exports, history, faults>>

RenameAudit(b) ==
  LET v == builder[b].version IN
  /\ builder[b].pc = "built"
  /\ IF audits[v] # NoAudit THEN UNCHANGED <<audits, built>>
     ELSE /\ built' = Append(built, builder[b].work)
          /\ audits' = [audits EXCEPT ![v] = [serial |-> Len(built) + 1, files |-> builder[b].work]]
  /\ builder' = [builder EXCEPT ![b] = [pc |-> "idle", work |-> Nothing]]
  /\ UNCHANGED <<draft, warehouse, dbt, exporter, exports, history, faults>>

-----------------------------------------------------------------------------
(* The exporter, and the people it guards against: someone who removes or  *)
(* edits a release by hand.                                                *)

\* The files copied, but for the ones that are only listed: the order of names
\* puts the checksums first.
CopyOrder == <<"checksums", "provenance", "csv">>

BeginExport(v) ==
  /\ exporter.pc = "idle" /\ audits[v] # NoAudit
  /\ exporter' = [pc |-> "copy", version |-> v, serial |-> audits[v].serial,
                  copied |-> <<>>, work |-> Nothing]
  /\ UNCHANGED <<draft, warehouse, dbt, builder, releases, history, faults>>

\* The next file, through the descriptor of the directory that was opened: one
\* removed since then has no files.
CopyFile ==
  /\ exporter.pc = "copy" /\ Len(exporter.copied) < Len(CopyOrder)
  /\ audits[exporter.version].serial = exporter.serial
  /\ exporter' = [exporter EXCEPT !.copied = Append(@,
       audits[exporter.version].files[CopyOrder[Len(@) + 1]])]
  /\ UNCHANGED <<draft, warehouse, dbt, builder, releases, history, faults>>

CopyFails ==
  /\ exporter.pc = "copy" /\ Len(exporter.copied) < Len(CopyOrder)
  /\ audits[exporter.version].serial # exporter.serial
  /\ exporter' = [pc |-> "idle", work |-> Nothing]
  /\ UNCHANGED <<draft, warehouse, dbt, builder, releases, history, faults>>

\* Every file of the snapshot is the one the checksum file lists.
SumsMatch(copied) ==
  /\ copied[1].provenance = copied[2]
  /\ copied[1].csv = copied[3]

\* Checksums, provenance, the reviewed attestation and the name.
SnapshotIsSound(copied, v) ==
  /\ SumsMatch(copied)
  /\ copied[2].version = copied[3].version /\ copied[2].csv = copied[3]
  /\ copied[2].attested = draft.attested /\ copied[2].attested = copied[2].seed
  /\ v = copied[3].version

\* The whole snapshot is validated and the sanitized files are written to a
\* temporary directory.
WriteExport ==
  LET copied == exporter.copied  v == exporter.version  csv == copied[3] IN
  /\ exporter.pc = "copy" /\ Len(copied) = Len(CopyOrder)
  /\ SnapshotIsSound(copied, v) /\ exports[v] = NoExport
  /\ MathHolds(csv.fills) /\ ValuesAreValid(csv.fills)
  /\ exporter' = [pc |-> "written", version |-> v,
                  work |-> [serial |-> exporter.serial, csv |-> csv, status |-> copied[2].status]]
  /\ UNCHANGED <<draft, warehouse, dbt, builder, releases, history, faults>>

RefuseExport ==
  LET copied == exporter.copied  v == exporter.version  csv == copied[3]
      values == MathHolds(csv.fills) /\ ValuesAreValid(csv.fills)
  IN
  /\ exporter.pc = "copy" /\ Len(copied) = Len(CopyOrder)
  /\ ~ (SnapshotIsSound(copied, v) /\ exports[v] = NoExport /\ values)
  /\ rejected' = (rejected \/ (SnapshotIsSound(copied, v) /\ ~ values))
  /\ exporter' = [pc |-> "idle", work |-> Nothing]
  /\ UNCHANGED <<draft, warehouse, dbt, builder, releases, verdict, tornMart, faults>>

RenameExport ==
  LET v == exporter.version IN
  /\ exporter.pc = "written"
  /\ exports' = IF exports[v] # NoExport THEN exports
                ELSE [exports EXCEPT ![v] = exporter.work]
  /\ exporter' = [pc |-> "idle", work |-> Nothing]
  /\ UNCHANGED <<draft, warehouse, dbt, builder, audits, built, history, faults>>

\* A release directory is removed by hand.
RemoveAudit(v) ==
  /\ faults < MaxFaults /\ audits[v] # NoAudit
  /\ audits' = [audits EXCEPT ![v] = NoAudit] /\ faults' = faults + 1
  /\ UNCHANGED <<draft, warehouse, dbt, builder, exporter, exports, built, history>>

\* A file of a release is overwritten with the one of another release.
EditAudit(v, file, other) ==
  /\ faults < MaxFaults /\ audits[v] # NoAudit
  /\ audits[v].files[file] # built[other][file]
  /\ audits' = [audits EXCEPT ![v].files[file] = built[other][file]] /\ faults' = faults + 1
  /\ UNCHANGED <<draft, warehouse, dbt, builder, exporter, exports, built, history>>

-----------------------------------------------------------------------------
ReleaseNext ==
  \/ \E d \in Drafts : CommitSeed(d)
  \/ \E s \in Scans : \E fills \in FillLists[s] : PublishScan(s, fills)
  \/ DbtSeed \/ DbtCandidate \/ DbtQuality \/ DbtMart \/ KillDbt
  \/ \E b \in Builders :
       \/ \E v \in Versions, secondary \in BOOLEAN : OpenRelease(b, v, secondary)
       \/ \E outcome \in Statuses : Verify(b, outcome)
       \/ BuildRelease(b) \/ Refuse(b) \/ RenameAudit(b)
  \/ \E v \in Versions : BeginExport(v) \/ RemoveAudit(v)
  \/ CopyFile \/ CopyFails \/ WriteExport \/ RefuseExport \/ RenameExport
  \/ \E v \in Versions, file \in {"csv", "provenance"}, other \in DOMAIN built :
       EditAudit(v, file, other)

ReleaseSpec == ReleaseInit /\ [][ReleaseNext]_release

-----------------------------------------------------------------------------
\* Every table, process and release is one the pipeline can produce.
ReleaseTypeOK ==
  /\ draft \in Drafts /\ canonical \in 0 .. Cardinality(Scans)
  /\ \A s \in Scans : run[s] # NoScan => run[s].seed \in Seeds /\ run[s].status \in Statuses
  /\ dbt \in {"idle", "candidate", "quality", "mart"}
  /\ \A b \in Builders : builder[b].pc \in {"idle", "open", "provenance", "built"}
  /\ exporter.pc \in {"idle", "copy", "written"}
  /\ Cardinality(Writers) =< 1 /\ (Writers # {} => dbt = "idle" /\ Readers = Writers)
  /\ \A v \in Versions : audits[v].serial \in 0 .. Len(built)

\* polygon_settlement.py:597 compares the scan of the quality row with the scan
\* of the provenance: the rows of an audit release are those of the scan its
\* provenance names, unless a dbt build died between the quality row and the
\* mart and none has replaced the mart since, which the comparison cannot see.
RowsAreOfTheScan ==
  \A b \in Builders : builder[b].pc = "built" /\ ~ tornMart =>
    LET a == builder[b].work IN a.csv.fills = run[a.provenance.scan].fills

\* polygon_settlement.py:411: the market sidecar of a release and the attestation
\* in it are of the seed the scan was made with, and so are the columns of it that
\* the rows carry, even when the committed file was edited and reverted around the
\* dbt build.
ReleaseHasOneSeed ==
  \A i \in DOMAIN built :
    LET a == built[i] IN
    /\ {a.sidecar, a.provenance.attested} = {a.provenance.seed}
    /\ a.csv.identity = IdentityOf[a.provenance.seed]

\* polygon_settlement_export.py:360-424: whatever is done by hand to the release
\* while it is copied, an export holds the rows and the verification status of
\* one audit release, as that release was built, under its version.
ExportIsOneAudit ==
  \A v \in Versions : exports[v] # NoExport =>
    LET a == built[exports[v].serial] IN
    /\ a.csv = exports[v].csv /\ a.csv.version = v
    /\ a.provenance.status = exports[v].status

\* polygon_settlement.py:252, 312 and polygon_settlement_export.py:254, 300: a
\* release that is in place is replaced by nobody but the hand that edits it.
ReleasesAreImmutable ==
  [][\A v \in Versions :
       /\ audits[v] # NoAudit /\ faults' = faults => audits'[v] = audits[v]
       /\ exports[v] # NoExport => exports'[v] = exports[v]]_release

\* polygon_settlement_sync.py:541-701 and polygon_settlement.py:793-841: a release
\* that is being built claims a match only when the last verification of its scan
\* found one, and its list of issues carries the verification warning otherwise.
VerificationIsDisclosed ==
  \A b \in Builders : builder[b].pc = "built" =>
    LET report == builder[b].work.quality
        scan   == builder[b].work.provenance.scan
    IN  /\ report.status = "matched" => verdict[scan] = "matched"
        /\ (report.status = "matched") = ("verification" \notin report.issues)

\* int_..._token_minute_odds.sql, polygon_settlement.py:648 and
\* polygon_settlement_export.py:569: rows the gate let through are never refused
\* for their values, however the prices round.
GatedRowsAreReleasable == ~ rejected

\* A release is one consistent statement: rows of the scan it names, one seed
\* throughout, its verification status disclosed, an export of one audit, and no
\* rows let through the gate only to be refused.
ReleaseIsConsistent ==
  /\ ReleaseTypeOK /\ RowsAreOfTheScan /\ ReleaseHasOneSeed /\ ExportIsOneAudit
  /\ VerificationIsDisclosed /\ GatedRowsAreReleasable
=============================================================================
