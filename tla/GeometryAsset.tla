----------------------------- MODULE GeometryAsset -----------------------------
(***************************************************************************)
(* The eclipse geometry asset (fractonica-saros-geo) and its use by the    *)
(* engine (fractonica-saros-engine).  An asset is a directory of sections, *)
(* one for each Saros series, in front of a payload; a section is a table  *)
(* of record offsets followed by the records, which are streams of bits: a *)
(* header, then for each polygon a count and that many points.             *)
(*                                                                         *)
(* The engine opens and validates the asset once; afterwards every request *)
(* looks a section up by bisection and scans one record.  Of the contents  *)
(* only what decides the layout is kept: the directory, the table words,   *)
(* and for each bit of the payload the record that the bits from there on  *)
(* spell.  Of the release manifest only the totals are kept: its digest    *)
(* admits one asset, and the checks are shown to suffice without it.       *)
(***************************************************************************)
EXTENDS Integers, Sequences, FiniteSets, SequencesExt, FiniteSetsExt

CONSTANTS
    Assets,         \* [length, directory, word, record, coverage]: word for
                    \* each byte, record for each bit of the payload
    Included,       \* the reviewed series, included_series
    Series,         \* series a request may name
    ByteBits,       \* 8
    TableBytes,     \* bytes of a table entry: 4
    CountBits, PointBits,
    MAX_PATH_POINTS,
    None

VARIABLES
    asset,          \* the bytes
    state,          \* "closed", "refused", "serving" or "scanning"
    request,        \* the series and sequence asked for
    position,       \* BitReader.position
    polygons,       \* the polygons of the answer, as point counts
    answer          \* the last answer

vars == <<asset, state, request, position, polygons, answer>>

Init ==
    /\ asset \in Assets
    /\ state = "closed"
    /\ request = None /\ position = 0 /\ polygons = <<>> /\ answer = None
-------------------------------------------------------------------------------
Sections == Len(asset.directory)
MaxRecords == Max({asset.directory[i].count : i \in 1..Sections})

(* Entries have records and start on a byte of the payload; series and     *)
(* offsets increase.                                                       *)
validate_directory ==
    \A i \in 1..Sections :
        LET e == asset.directory[i] IN
        /\ e.count # 0 /\ e.offset % ByteBits = 0
        /\ e.offset \div ByteBits < asset.length
        /\ i > 1 => asset.directory[i - 1].saros < e.saros
                    /\ asset.directory[i - 1].offset < e.offset

(* section_at: the bytes [from, to) of section i, and its data after the   *)
(* table.                                                                  *)
From(i) == asset.directory[i].offset \div ByteBits
To(i) == IF i < Sections THEN From(i + 1) ELSE asset.length
DataFrom(i) == From(i) + TableBytes * (asset.directory[i].count + 1)
DataBits(i) == (To(i) - DataFrom(i)) * ByteBits

(* Section::offset: table entry r of section i.                            *)
Offset(i, r) == asset.word[From(i) + TableBytes * r]

(* Mutant of SectionOpens: the offsets may lie outside the data.           *)
SectionOpens_Unbounded(i) ==
    LET n == asset.directory[i].count IN
    /\ From(i) < To(i) /\ To(i) <= asset.length /\ DataFrom(i) < To(i)
    /\ \A r \in 0..n : r > 0 => Offset(i, r - 1) <= Offset(i, r)
    /\ Offset(i, 0) = 0 /\ Offset(i, n) # 0

(* section_at, Section::open and validate_offsets.                         *)
SectionOpens(i) ==
    LET n == asset.directory[i].count IN
    /\ From(i) < To(i) /\ To(i) <= asset.length /\ DataFrom(i) < To(i)
    /\ \A r \in 0..n : /\ Offset(i, r) <= DataBits(i)
                       /\ r > 0 => Offset(i, r - 1) <= Offset(i, r)
    /\ Offset(i, 0) = 0 /\ Offset(i, n) # 0

(* What the bits of record r of section i spell: the bits of its header    *)
(* with the optional fields, whether all fields are in range, and the      *)
(* point counts of its polygons.                                           *)
Record(i, r) == asset.record[DataFrom(i) * ByteBits + Offset(i, r)]
PolygonBits(n) == CountBits + n * PointBits
RecordBits(i, r) ==
    Record(i, r).head + FoldSeq(LAMBDA n, b : b + PolygonBits(n), 0, Record(i, r).points)
Points(i, r) == FoldSeq(LAMBDA n, t : t + n, 0, Record(i, r).points)

(* Section::record and RecordRef::metadata: the scan ends at the end.      *)
RecordReads(i, r) ==
    /\ r < asset.directory[i].count
    /\ Offset(i, r) < Offset(i, r + 1)
    /\ Record(i, r).ok
    /\ Offset(i, r) + RecordBits(i, r) = Offset(i, r + 1)

(* SingleFile::section: bisection for the first entry not below saros.     *)
RECURSIVE Bisected(_, _, _)
Bisected(saros, low, high) ==
    IF low >= high THEN low
    ELSE LET middle == low + (high - low) \div 2 IN
         IF asset.directory[middle + 1].saros < saros
         THEN Bisected(saros, middle + 1, high)
         ELSE Bisected(saros, low, middle)

section(saros) ==
    LET low == Bisected(saros, 0, Sections) IN
    IF low < Sections /\ asset.directory[low + 1].saros = saros THEN {low + 1} ELSE {}

(* SingleFile::validate and validate_coverage.                             *)
validate ==
    \A i \in 1..Sections :
        SectionOpens(i) /\ \A r \in 0..(asset.directory[i].count - 1) : RecordReads(i, r)

Reviewed == UNION {section(saros) : saros \in Included}
Records(sections) == {<<i, r>> \in sections \X (0..MaxRecords) : r < asset.directory[i].count}
validate_coverage ==
    /\ \A saros \in Included : section(saros) # {}
    /\ Cardinality(Records(Reviewed)) = asset.coverage.eclipses
    /\ MapThenSumSet(LAMBDA x : Points(x[1], x[2]), Records(Reviewed)) = asset.coverage.points

(* embedded_reviewed: the engine starts only on a valid asset.             *)
embedded_reviewed ==
    /\ state = "closed"
    /\ state' = IF Sections > 0 /\ validate_directory /\ validate /\ validate_coverage
                THEN "serving" ELSE "refused"
    /\ UNCHANGED <<asset, request, position, polygons, answer>>
-------------------------------------------------------------------------------
(* RecordHeader::read: the fields are in range and inside the record.      *)
Readable(i, r) ==
    Record(i, r).ok /\ Offset(i, r) + Record(i, r).head <= Offset(i, r + 1)

Reply(a) ==
    /\ answer' = a /\ state' = "serving"
    /\ request' = None /\ position' = 0 /\ polygons' = <<>>
    /\ UNCHANGED asset

(* eclipse and path: a series that was not reviewed and a sequence that    *)
(* does not exist are told apart; the record is scanned behind its header. *)
Ask(want, saros, sequence) ==
    /\ state = "serving" /\ answer = None
    /\ \/ /\ saros \notin Included \/ section(saros) = {}
          /\ Reply([status |-> "geometry_unavailable"])
       \/ /\ saros \in Included
          /\ \E i \in section(saros) :
                IF SectionOpens(i) /\ sequence >= asset.directory[i].count
                THEN Reply([status |-> "eclipse_unavailable"])
                ELSE IF SectionOpens(i) /\ Readable(i, sequence)
                THEN /\ state' = "scanning"
                     /\ request' = [want |-> want, section |-> i, sequence |-> sequence,
                                    points |-> 0]
                     /\ position' = Offset(i, sequence) + Record(i, sequence).head
                     /\ polygons' = <<>>
                     /\ UNCHANGED <<asset, answer>>
                ELSE Reply([status |-> "geometry_error"])

End == Offset(request.section, request.sequence + 1)
Todo == Record(request.section, request.sequence).points

(* scan_geometry: one polygon; a read past the record's end is an error.   *)
scan_geometry ==
    /\ state = "scanning" /\ Len(polygons) < Len(Todo)
    /\ LET n == Todo[Len(polygons) + 1] IN
       IF position + PolygonBits(n) > End
       THEN Reply([status |-> "geometry_error"])
       ELSE /\ position' = position + PolygonBits(n)
            /\ polygons' = Append(polygons, n)
            /\ request' = [request EXCEPT !.points = @ + n]
            /\ UNCHANGED <<asset, state, answer>>

(* visit_geometry ends exactly at the record's end; large paths are        *)
(* refused.                                                                *)
Visited ==
    /\ state = "scanning" /\ Len(polygons) = Len(Todo)
    /\ Reply(IF position # End THEN [status |-> "geometry_error"]
             ELSE IF request.want = "path" /\ request.points > MAX_PATH_POINTS
             THEN [status |-> "path_too_large"]
             ELSE [status |-> request.want, section |-> request.section,
                   sequence |-> request.sequence, polygons |-> polygons])

(* The caller takes its answer and may ask again.                          *)
Take == answer # None /\ answer' = None
        /\ UNCHANGED <<asset, state, request, position, polygons>>

Next ==
    \/ embedded_reviewed
    \/ \E want \in {"eclipse", "path"}, saros \in Series, sequence \in 0..MaxRecords :
          Ask(want, saros, sequence)
    \/ scan_geometry \/ Visited \/ Take

Spec == Init /\ [][Next]_vars
-------------------------------------------------------------------------------
(* An engine that started never answers with an error of the asset: what   *)
(* was validated once holds for every later lookup and scan                *)
(* (embedded_reviewed, Ask).                                               *)
ValidatedOnceHolds == answer # None => answer.status # "geometry_error"

(* A scan stays inside its record, and the records of a section lie in its *)
(* own data without overlapping, so that no read of one series touches     *)
(* another (validate_offsets, BitReader::read_uint).                       *)
ScanStaysInRecord ==
    state = "scanning" =>
        /\ position <= End
        /\ End <= DataBits(request.section)
        /\ \A i \in 1..Sections \ {request.section} :
              \/ DataFrom(request.section) + (End + ByteBits - 1) \div ByteBits <= From(i)
              \/ To(i) <= DataFrom(request.section)

(* The bisection finds a series exactly when the directory lists it, and   *)
(* finds that entry (SingleFile::section).                                 *)
LookupIsExact ==
    state \in {"serving", "scanning"} =>
        \A saros \in Series :
            section(saros) = {i \in 1..Sections : asset.directory[i].saros = saros}

(* A record that is returned is whole: all its polygons, up to the first   *)
(* bit of the next record (visit_geometry, metadata).                      *)
PathIsWhole ==
    answer # None /\ answer.status \in {"eclipse", "path"} =>
        /\ answer.polygons = Record(answer.section, answer.sequence).points
        /\ Offset(answer.section, answer.sequence) + RecordBits(answer.section, answer.sequence)
             = Offset(answer.section, answer.sequence + 1)

(* What was opened is read exactly: a lookup finds its section, a scan     *)
(* stays in its record and returns all of it, and nothing that was         *)
(* validated fails later (SingleFile, visit_geometry).                     *)
ReadsAreExact == ValidatedOnceHolds /\ ScanStaysInRecord /\ LookupIsExact /\ PathIsWhole
===============================================================================
