----------------------------- MODULE ASM_Stream -----------------------------
(***************************************************************************)
(* modASM_Add and modASM_Remove: every data unit is sent behind an         *)
(* attached sync marker, what lies between them flips bits and cuts the    *)
(* stream into buffers of any length, and the units are found again by     *)
(* their markers.  One pass of the inner loop of modASM_Remove::svc() over *)
(* the buffer at hand is one step.                                         *)
(***************************************************************************)
EXTENDS Naturals, Sequences

CONSTANTS
    Bytes,                   \* the octet values that occur
    Marker,                  \* markerPattern
    ExpectedUnitLength,      \* octets of every unit behind its marker
    AllowedMarkerBitErrors,
    Far,                     \* bits in which two different octet values differ
    Contents,                \* the units a source may send
    BufferLengths,           \* the lengths of buffer the stream may come in
    MaxUnits, MaxHits,       \* bounds: units sent, bits flipped
    NoUnit                   \* the null goodUnit pointer

\* An octet in the stream: which octet of which unit it is, marker included, its value as
\* sent, and whether a bit of it has been flipped (one at most: a flipped octet is one bit
\* from what it was and stays unlike every other value).
Octet == [unit : Nat, k : Nat, byte : Bytes, flipped : 0..1]

ASSUME StreamAssumption ==
    /\ Marker \in Seq(Bytes) /\ Marker # <<>>
    /\ ExpectedUnitLength \in Nat \ {0}
    /\ Contents \subseteq [1..ExpectedUnitLength -> Bytes]
    /\ AllowedMarkerBitErrors \in Nat /\ Far \in Nat \ {0}
    /\ BufferLengths \subseteq Nat \ {0}
    /\ MaxUnits \in Nat /\ MaxHits \in Nat
    /\ NoUnit \notin Seq(Octet)

VARIABLES
    sent,              \* number of units sent
    wire,              \* octets on their way
    hits,              \* bits flipped
    markerHits,        \* history: those in the marker of each unit
    data,              \* what is left of the buffer in modASM_Remove::svc()
    goodUnit,          \* the unit being collected, or NoUnit
    markerOffset,      \* octets of a marker matched in earlier buffers
    currentBitErrors,  \* bit errors found in them
    matched,           \* history: the octets taken for the marker of goodUnit
    delivered          \* the units sent on, each with the octets taken for its marker

streamVars == <<sent, wire, hits, markerHits, data, goodUnit, markerOffset, currentBitErrors,
                matched, delivered>>

StreamTypeOK ==
    /\ sent \in 0..MaxUnits /\ hits \in 0..MaxHits
    /\ markerHits \in [1..MaxUnits -> 0..MaxHits]
    /\ wire \in Seq(Octet) /\ data \in Seq(Octet)
    /\ goodUnit \in Seq(Octet) \cup {NoUnit}
    /\ markerOffset \in 0..Len(Marker) - 1
    /\ currentBitErrors \in 0..AllowedMarkerBitErrors
    /\ matched \in Seq(Octet)
    /\ delivered \in Seq([marker : Seq(Octet), data : Seq(Octet)])

StreamInit ==
    /\ sent = 0 /\ wire = <<>>
    /\ hits = 0 /\ markerHits = [u \in 1..MaxUnits |-> 0]
    /\ data = <<>> /\ goodUnit = NoUnit
    /\ markerOffset = 0 /\ currentBitErrors = 0
    /\ matched = <<>> /\ delivered = <<>>

-----------------------------------------------------------------------------
Marked(n, content) ==
    LET all == Marker \o content
    IN  [i \in 1..Len(all) |-> [unit |-> n, k |-> i, byte |-> all[i], flipped |-> 0]]

\* modASM_Add::svc(): a unit leaves with the marker in front of it.
Add == \E content \in Contents :
    /\ sent < MaxUnits
    /\ sent' = sent + 1
    /\ wire' = wire \o Marked(sent + 1, content)
    /\ UNCHANGED <<hits, markerHits, data, goodUnit, markerOffset, currentBitErrors,
                   matched, delivered>>

\* The channel flips a bit.
Flip == \E i \in DOMAIN wire :
    /\ hits < MaxHits /\ wire[i].flipped = 0
    /\ wire' = [wire EXCEPT ![i].flipped = 1]
    /\ hits' = hits + 1
    /\ markerHits' = IF wire[i].k <= Len(Marker)
                     THEN [markerHits EXCEPT ![wire[i].unit] = @ + 1] ELSE markerHits
    /\ UNCHANGED <<sent, data, goodUnit, markerOffset, currentBitErrors,
                   matched, delivered>>

\* modASM_Remove::svc(): the buffer is used up, the next one is taken from the queue.
GetData == \E n \in BufferLengths :
    /\ data = <<>> /\ n <= Len(wire)
    /\ data' = SubSeq(wire, 1, n)
    /\ wire' = SubSeq(wire, n + 1, Len(wire))
    /\ UNCHANGED <<sent, hits, markerHits, goodUnit, markerOffset, currentBitErrors,
                   matched, delivered>>

-----------------------------------------------------------------------------
Lesser(a, b) == IF a <= b THEN a ELSE b

\* The octets compared next, with the part of the marker still to be found.
Wanted  == Len(Marker) - markerOffset
Compare == Lesser(Len(data), Wanted)

OctetErrors(o, m) == IF o.byte = m THEN o.flipped ELSE Far

\* Bit errors in the first n octets of the buffer, as _markerMatch() adds them up.
BitErrors[n \in 0..Compare] ==
    IF n = 0 THEN 0
    ELSE BitErrors[n - 1] + OctetErrors(data[n], Marker[markerOffset + n])

\* Mutant: each part of a marker is allowed its own bit errors.
MarkerMatchAnew == BitErrors[Compare] <= AllowedMarkerBitErrors

\* _markerMatch()
MarkerMatch == currentBitErrors + BitErrors[Compare] <= AllowedMarkerBitErrors

Advance(n) == data' = SubSeq(data, n + 1, Len(data))
Deliver(marker, unit) == delivered' = Append(delivered, [marker |-> marker, data |-> unit])

\* Mutant: the part of a marker at the end of a buffer is passed over.
KeepNoPart ==
    /\ markerOffset' = 0 /\ currentBitErrors' = 0 /\ matched' = <<>>

\* What a buffer ends with may be the first part of the marker.
KeepPart ==
    /\ markerOffset' = markerOffset + Compare
    /\ currentBitErrors' = currentBitErrors + BitErrors[Compare]
    /\ matched' = matched \o SubSeq(data, 1, Compare)

\* Mutant: a mismatch leaves the octets matched before counted.
ForgetErrorsOnly == currentBitErrors' = 0 /\ matched' = <<>> /\ UNCHANGED markerOffset

\* A mismatch starts the marker afresh.
Forget == markerOffset' = 0 /\ currentBitErrors' = 0 /\ matched' = <<>>

\* The buffer is too short to hold the rest of the marker: all of it is used up.
PartOfMarker ==
    /\ data # <<>> /\ goodUnit = NoUnit /\ Len(data) < Wanted
    /\ IF MarkerMatch THEN KeepPart ELSE Forget
    /\ Advance(Len(data))
    /\ UNCHANGED <<sent, wire, hits, markerHits, goodUnit, delivered>>

\* The marker is found: its unit is sent on if the buffer holds all of it, else collected.
MarkerFound ==
    /\ data # <<>> /\ goodUnit = NoUnit /\ Len(data) >= Wanted /\ MarkerMatch
    /\ LET marker == matched \o SubSeq(data, 1, Wanted)
           behind == SubSeq(data, Wanted + 1, Lesser(Len(data), Wanted + ExpectedUnitLength))
       IN  /\ Advance(Wanted + Len(behind))
           /\ IF Len(behind) = ExpectedUnitLength
              THEN Deliver(marker, behind) /\ matched' = <<>> /\ UNCHANGED goodUnit
              ELSE goodUnit' = behind /\ matched' = marker /\ UNCHANGED delivered
    /\ markerOffset' = 0 /\ currentBitErrors' = 0
    /\ UNCHANGED <<sent, wire, hits, markerHits>>

\* No marker here: one octet on.
NoMarker ==
    /\ data # <<>> /\ goodUnit = NoUnit /\ Len(data) >= Wanted /\ ~MarkerMatch
    /\ Forget
    /\ Advance(1)
    /\ UNCHANGED <<sent, wire, hits, markerHits, goodUnit, delivered>>

\* The unit begun in an earlier buffer is continued without looking for markers.
ContinueUnit ==
    /\ data # <<>> /\ goodUnit # NoUnit
    /\ LET n    == Lesser(Len(data), ExpectedUnitLength - Len(goodUnit))
           unit == goodUnit \o SubSeq(data, 1, n)
       IN  /\ Advance(n)
           /\ IF Len(unit) = ExpectedUnitLength
              THEN Deliver(matched, unit) /\ goodUnit' = NoUnit /\ matched' = <<>>
              ELSE goodUnit' = unit /\ UNCHANGED <<delivered, matched>>
    /\ UNCHANGED <<sent, wire, hits, markerHits, markerOffset, currentBitErrors>>

Remove     == GetData \/ PartOfMarker \/ MarkerFound \/ NoMarker \/ ContinueUnit
StreamNext == Add \/ Flip \/ Remove

StreamSpec == StreamInit /\ [][StreamNext]_streamVars

-----------------------------------------------------------------------------
\* What is taken for a marker is a whole marker's length of consecutive octets of the
\* stream with the unit right behind it, and has no more bit errors than are allowed,
\* into however many buffers it was cut (modASM_Remove.cpp:252-285).
Adjacent(a, b) == \/ b.unit = a.unit /\ b.k = a.k + 1
                  \/ /\ b.unit = a.unit + 1 /\ b.k = 1
                     /\ a.k = Len(Marker) + ExpectedUnitLength

MarkerErrors(s) ==
    LET sum[n \in 0..Len(s)] == IF n = 0 THEN 0
                                ELSE sum[n - 1] + OctetErrors(s[n], Marker[n])
    IN  sum[Len(s)]

Framed == \A i \in DOMAIN delivered :
    LET run == delivered[i].marker \o delivered[i].data IN
    /\ Len(delivered[i].marker) = Len(Marker)
    /\ Len(delivered[i].data) = ExpectedUnitLength
    /\ \A j \in 1..Len(run) - 1 : Adjacent(run[j], run[j + 1])
    /\ MarkerErrors(delivered[i].marker) <= AllowedMarkerBitErrors

\* The state is of its types, and what was delivered came from behind a marker.
WellFramed == StreamTypeOK /\ Framed

\* As long as no marker has more flipped bits than are allowed the units come out exactly
\* as they went in, none missing, whatever they contain, however many of their own bits
\* were flipped, and wherever the stream was cut into buffers (modASM_Remove.cpp:155-243).
Readable(u) == markerHits[u] <= AllowedMarkerBitErrors

InStep == (\A u \in 1..sent : Readable(u)) =>
    /\ \A i \in DOMAIN delivered : /\ delivered[i].data[1].unit = i
                                   /\ delivered[i].data[1].k = Len(Marker) + 1
    /\ wire = <<>> /\ data = <<>> => Len(delivered) = sent

\* What modASM_Remove.dsc:7 says: where a marker is missing the check occurs again at the
\* next octet, so no readable marker is passed over while one is looked for.
Seen == matched \o data
NoMarkerPassedOver ==
    [][(data # <<>> /\ goodUnit = NoUnit /\ goodUnit' = NoUnit /\ UNCHANGED delivered) =>
          \A i \in 1..Len(Seen) - Len(Seen') : Seen[i].k = 1 => ~Readable(Seen[i].unit)]_streamVars

=============================================================================
