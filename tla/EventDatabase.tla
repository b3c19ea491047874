--------------------------- MODULE EventDatabase ----------------------------
(***************************************************************************)
(* bgp_database: the file of replaced routes.                              *)
(*                                                                         *)
(* peer_entry appends the route it is about to replace (db_insert); the    *)
(* CLI and the API read the routes of one key back, newest first           *)
(* (db_get_entries).  Both run under db_mutex, so each is one action.  The *)
(* one std::fstream has one position for reading and writing: an insert    *)
(* writes wherever the last query has left it.                             *)
(*                                                                         *)
(* The file is a sequence of cells.  A marker takes two cells, so that a   *)
(* reader that starts at the wrong place can miss it, as it can with the   *)
(* four-byte markers of the code; a length, an AS number or the NLRI block *)
(* takes one.  Of the optional attributes the AS path stands for all: it   *)
(* is the one of variable length.  No payload is mistaken for a marker.    *)
(***************************************************************************)
EXTENDS Integers, Sequences

CONSTANTS
    Key,           \* [prefix, bgp_id] pairs
    None,          \* no value read
    PathLength,    \* lengths of the AS path of a route; 0 is no AS path
    max_records,   \* records kept for a key
    MaxInserts     \* bound on the records inserted in a behaviour

ASSUME LengthAssumption == PathLength \subseteq Nat
ASSUME NoneAssumption == None \notin Int
ASSUME MaxAssumption == max_records \in Nat \ {0} /\ MaxInserts \in Nat

VARIABLES
    file,         \* the cells
    position,     \* the position of the fstream
    index_map,    \* key -> positions of its records, oldest first
    spinning,     \* a query loops for ever and keeps db_mutex
    \* history
    inserted,     \* key -> the records index_map points to, oldest first
    last,         \* key of the last insert
    count,        \* records inserted so far; numbers the records
    rewound,      \* the lowest position a query has left the file at
    overwrote     \* an insert was not at the end of the file

vars == <<file, position, index_map, spinning, inserted, last, count, rewound,
          overwrote>>

Init ==
    /\ file = <<>> /\ position = 0
    /\ index_map = [k \in Key |-> <<>>]
    /\ spinning = FALSE
    /\ inserted = [k \in Key |-> <<>>]
    /\ last = None /\ count = 0
    /\ rewound = None /\ overwrote = FALSE

-----------------------------------------------------------------------------
\* What tellp() returns, and where the stream is, once read() has failed: all
\* reads and writes fail until the next clear().
Failed == -1

Cell(kind, val) == [kind |-> kind, val |-> val]
EndCell == Cell("end_of_record", 0)    \* 0xFF
Marker(kind) == IF kind = "end_of_record" THEN <<EndCell, EndCell>>
                ELSE <<Cell(kind, 1), Cell(kind, 2)>>

\* Mutants of Encode: no end marker, no length.
EncodeOpen(n, length) ==
    (IF length = 0 THEN <<>>
     ELSE Marker("as_path") \o <<Cell("data", length)>>
              \o [i \in 1..length |-> Cell("data", n)])
    \o Marker("nlri") \o <<Cell("data", n)>>

EncodeNoLength(n, length) ==
    (IF length = 0 THEN <<>>
     ELSE Marker("as_path") \o [i \in 1..length |-> Cell("data", n)])
    \o Marker("nlri") \o <<Cell("data", n)>>
    \o Marker("end_of_record")

\* db_insert: marker and value for every attribute the route has, the NLRI
\* block, the end marker.  n numbers the route.
Encode(n, length) ==
    (IF length = 0 THEN <<>>
     ELSE Marker("as_path") \o <<Cell("data", length)>>
              \o [i \in 1..length |-> Cell("data", n)])
    \o Marker("nlri") \o <<Cell("data", n)>>
    \o Marker("end_of_record")

\* Mutants of Write: the end of the file before is cut, or the rest is.
WriteEarly(f, at, cells) ==
    SubSeq(f, 1, at - 1) \o cells \o SubSeq(f, at + Len(cells), Len(f))

WriteShort(f, at, cells) == SubSeq(f, 1, at) \o Tail(cells)

Write(f, at, cells) ==
    SubSeq(f, 1, at) \o cells \o SubSeq(f, at + Len(cells) + 1, Len(f))

\* The attribute code read at p; "other" if the switch has no case for it.
Code(f, p) ==
    IF \E kind \in {"as_path", "nlri", "end_of_record"} :
          SubSeq(f, p + 1, p + 2) = Marker(kind)
    THEN f[p + 1].kind ELSE "other"

\* The loop of db_get_entries for one record: codes are read until the end
\* marker is; a later attribute replaces an earlier one of its kind.  A read
\* that meets the end of the file stores the bytes there are and fails.  With
\* half an end marker before p the other half completes it; otherwise, and
\* after a value that meets the end, the code never changes again and the loop
\* never ends.  So it is after seekg(-1).
Ends(p) == [end |-> p, path |-> None, nlri |-> None]
Spin == Ends(None)

\* Where the loop is after the code at p and its value.
After(f, p) ==
    p + CASE Code(f, p) = "as_path" -> 3 + (IF p + 3 > Len(f) THEN 0 ELSE f[p + 3].val)
          [] Code(f, p) = "nlri" -> 3
          [] OTHER -> 2

\* The attribute at p, in front of what the rest of the record was read as.
Before(f, p, rest) ==
    [rest EXCEPT
        !.path = IF Code(f, p) = "as_path" /\ @ = None
                 THEN SubSeq(f, p + 4, After(f, p)) ELSE @,
        !.nlri = IF Code(f, p) = "nlri" /\ @ = None THEN f[p + 3] ELSE @]

Read(f, at) ==
    LET from[p \in 0..Len(f)] ==
          IF p + 2 > Len(f)
          THEN IF p > 0 /\ p < Len(f) /\ f[p] = EndCell /\ f[p + 1] = EndCell
               THEN Ends(Failed) ELSE Spin
          ELSE IF Code(f, p) = "end_of_record" THEN Ends(p + 2)
          ELSE IF After(f, p) > Len(f) \/ from[After(f, p)] = Spin THEN Spin
          ELSE Before(f, p, from[After(f, p)])
    IN  IF at = Failed THEN Spin ELSE from[at]

\* What a query for k reads, oldest first.
Found(k) == [n \in 1..Len(index_map[k]) |-> Read(file, index_map[k][n])]

\* emplace_back, then the oldest goes if there are too many.
Keep(s, e) == IF Len(s) = max_records THEN Append(Tail(s), e) ELSE Append(s, e)

\* On a failed stream tellp() returns -1 and nothing is written.
db_insert(k, length) ==
    LET cells == Encode(count, length) IN
    /\ ~spinning /\ count < MaxInserts
    /\ index_map' = [index_map EXCEPT ![k] = Keep(@, position)]
    /\ IF position = Failed
       THEN UNCHANGED <<file, position, overwrote>>
       ELSE /\ file' = Write(file, position, cells)
            /\ position' = position + Len(cells)
            /\ overwrote' = (overwrote \/ position < Len(file))
    /\ inserted' = [inserted EXCEPT
                      ![k] = Keep(@, [end |-> position', length |-> length,
                                      number |-> count])]
    /\ last' = k /\ count' = count + 1
    /\ UNCHANGED <<spinning, rewound>>

\* Newest first: the file is left where the oldest record ended.
db_get_entries(k) ==
    /\ ~spinning /\ index_map[k] # <<>>
    /\ \A n \in DOMAIN Found(k) : Found(k)[n] # Spin
    /\ position' = Found(k)[1].end
    /\ rewound' = IF position' # Failed /\ (rewound = None \/ position' < rewound)
                  THEN position' ELSE rewound
    /\ UNCHANGED <<file, index_map, spinning, inserted, last, count, overwrote>>

\* A record whose end is not found: db_mutex is not released again.
db_get_entries_spins(k) ==
    /\ ~spinning
    /\ \E n \in DOMAIN Found(k) : Found(k)[n] = Spin
    /\ spinning' = TRUE
    /\ UNCHANGED <<file, position, index_map, inserted, last, count, rewound,
                   overwrote>>

Next ==
    \E k \in Key :
        \/ \E length \in PathLength : db_insert(k, length)
        \/ db_get_entries(k)
        \/ db_get_entries_spins(k)

Spec == Init /\ [][Next]_vars

-----------------------------------------------------------------------------
(* Properties.                                                             *)

TypeOK ==
    /\ file \in Seq([kind : {"data", "as_path", "nlri", "end_of_record"}, val : Nat])
    /\ position \in {Failed} \cup 0..Len(file)
    /\ index_map \in [Key -> Seq({Failed} \cup 0..Len(file))]
    /\ spinning \in BOOLEAN /\ overwrote \in BOOLEAN
    /\ inserted \in [Key -> Seq([end : {Failed} \cup Nat, length : PathLength, number : Nat])]
    /\ last \in Key \cup {None}
    /\ count \in 0..MaxInserts
    /\ rewound \in Nat \cup {None}

\* The record reads back as the route that was inserted, and no further.
Intact(k, n) ==
    LET r == inserted[k][n] IN
    Read(file, index_map[k][n]) =
        [end |-> r.end,
         path |-> IF r.length = 0 THEN None
                  ELSE [i \in 1..r.length |-> Cell("data", r.number)],
         nlri |-> Cell("data", r.number)]

\* A query moves the position the inserts write at, but no record that ends
\* before the lowest place it was moved to is ever damaged; if no query has
\* been made, that is all of them.
IntactBelowRewind ==
    \A k \in Key : \A n \in 1..Len(index_map[k]) :
        /\ index_map[k][n] # Failed
        /\ rewound = None \/ inserted[k][n].end <= rewound
        => Intact(k, n)

\* Wherever it is written, the route replaced last is the first one a query
\* for its key returns, unless the stream had failed.
NewestIntact ==
    last # None =>
        LET n == Len(index_map[last])
        IN  index_map[last][n] # Failed => Intact(last, n)

\* As long as every insert was at the end of the file every query returns.
SpinsOnlyAfterOverwrite == spinning => overwrote

\* A key has up to max_records entries, all of them readable.
HistoryKept == \A k \in Key : \A n \in 1..Len(index_map[k]) : Intact(k, n)
=============================================================================
