------------------------------- MODULE GeoImport -------------------------------
(***************************************************************************)
(* The GeoIP database and the import of CSV files into it                  *)
(* (src/geoip-resolver/src/geo_data.rs, CmdImport of its main.rs).  The    *)
(* importer is an operator's command that may fail or be killed between    *)
(* any two operations on the database, which is all that remains of it.    *)
(* A file is the set of addresses its rows begin at, in their order, each  *)
(* row ending where the next begins.  Addresses have two bytes here.       *)
(***************************************************************************)
EXTENDS Integers, FiniteSets

CONSTANTS
    ByteSize,   \* bound: values of a byte
    Files       \* CSV files, of a table or the other; there is one at least

Ip == 0..(ByteSize * ByteSize - 1)

ASSUME GeoImportAssumption == ByteSize \in Nat \ {0} /\ Files \subseteq SUBSET Ip /\ Files # {}

CF_ASN == "asn"
CF_LOCATIONS == "locations"
CFS == {CF_ASN, CF_LOCATIONS}

VARIABLES
    cfs,        \* the column families there are, each a function from keys to rows
    import,     \* the files that are still to import, by table
    rest,       \* rows to come of the table in hand
    imported,   \* history: the files of the tables that were filled from them whole
    step

importVars == <<cfs, import, rest, imported, step>>

NoRow == [file |-> {}, ip_from |-> -1]
NoTables == [t \in {} |-> {}]
Empty == [key \in {} |-> NoRow]
Without(f, x) == [y \in DOMAIN f \ {x} |-> f[y]]
Extended(f, x, value) == [y \in DOMAIN f \cup {x} |-> IF y = x THEN value ELSE f[y]]

\* Mutant: the bytes of the machine's order.
LittleEndian(ip) == <<ip % ByteSize, ip \div ByteSize>>

to_be_bytes(ip) == <<ip \div ByteSize, ip % ByteSize>>

\* The order of the keys in a column family is that of their bytes.
KeyLeq(a, b) == a[1] < b[1] \/ (a[1] = b[1] /\ a[2] <= b[2])

\* The last key that is not greater.
seek_for_prev(table, key) ==
    LET below == {k \in DOMAIN table : KeyLeq(k, key)}
    IN  IF below = {} THEN NoRow
        ELSE table[CHOOSE k \in below : \A other \in below : KeyLeq(other, k)]

\* What find reads from a table.
find(table, ip) == seek_for_prev(table, to_be_bytes(ip))

\* A resolve opens the database, or else it ends at once.
CanOpen == CFS \subseteq DOMAIN cfs

-----------------------------------------------------------------------------
\* The database does not exist.
ImportInit ==
    /\ cfs = NoTables /\ import = NoTables /\ imported = NoTables
    /\ rest = {}
    /\ step = "idle"

Jobs == UNION {[tables -> Files] : tables \in SUBSET CFS}

\* Mutant: column families are created with the database only.
OpenExisting(job) ==
    /\ step = "idle"
    /\ cfs' = IF cfs = NoTables THEN [t \in CFS |-> Empty] ELSE cfs
    /\ import' = job
    /\ step' = "next"
    /\ UNCHANGED <<rest, imported>>

\* GeoDataImporter::new; what is missing is created.
Open(job) ==
    /\ step = "idle"
    /\ cfs' = [t \in CFS |-> IF t \in DOMAIN cfs THEN cfs[t] ELSE Empty]
    /\ import' = job
    /\ step' = "next"
    /\ UNCHANGED <<rest, imported>>

\* The table in hand: ASN goes first.
Table == IF CF_ASN \in DOMAIN import THEN CF_ASN ELSE CF_LOCATIONS

\* The lines of the file are counted and it is opened again to be read.
OpenFile ==
    /\ step = "next" /\ DOMAIN import # {}
    /\ rest' = import[Table]
    /\ step' = "drop"
    /\ UNCHANGED <<cfs, import, imported>>

\* Mutant: the rows of the last import stay.
DropKeepsRows ==
    /\ step = "drop"
    /\ imported' = Without(imported, Table)
    /\ step' = "put"
    /\ UNCHANGED <<cfs, import, rest>>

\* clear_cf; drop_cf fails if there is none.
DropCf ==
    /\ step = "drop" /\ Table \in DOMAIN cfs
    /\ cfs' = Without(cfs, Table)
    /\ imported' = Without(imported, Table)
    /\ step' = "create"
    /\ UNCHANGED <<import, rest>>

CreateCf ==
    /\ step = "create"
    /\ cfs' = Extended(cfs, Table, Empty)
    /\ step' = "put"
    /\ UNCHANGED <<import, rest, imported>>

\* The next row of the file is written.
PutRow ==
    /\ step = "put" /\ rest # {}
    /\ LET ip_from == CHOOSE ip \in rest : \A other \in rest : ip <= other
           key == to_be_bytes(ip_from)
           row == [file |-> import[Table], ip_from |-> ip_from]
       IN  /\ cfs' = [cfs EXCEPT ![Table] = Extended(@, key, row)]
           /\ rest' = rest \ {ip_from}
    /\ UNCHANGED <<import, imported, step>>

EndFile ==
    /\ step = "put" /\ rest = {}
    /\ imported' = Extended(imported, Table, import[Table])
    /\ import' = Without(import, Table)
    /\ step' = "next"
    /\ UNCHANGED <<cfs, rest>>

Finish ==
    /\ step = "next" /\ DOMAIN import = {}
    /\ step' = "idle"
    /\ UNCHANGED <<cfs, import, rest, imported>>

\* A file or a row cannot be read, the database refuses, or the command is
\* killed.
FailImport ==
    /\ step # "idle"
    /\ import' = NoTables /\ rest' = {}
    /\ step' = "idle"
    /\ UNCHANGED <<cfs, imported>>

AdvanceImport == OpenFile \/ DropCf \/ CreateCf \/ PutRow \/ EndFile \/ Finish

ImportNext == (\E job \in Jobs : Open(job)) \/ AdvanceImport \/ FailImport

ImportSpec == ImportInit /\ [][ImportNext]_importVars

\* The command runs once it is started.
ImportFairSpec == ImportSpec /\ WF_importVars(AdvanceImport)

-----------------------------------------------------------------------------
\* Whatever was imported before and wherever it ended, a table holds the
\* beginning of one file and nothing of another (geo_data.rs:39, 72, 186).
RowsOfOneFile ==
    \A t \in DOMAIN cfs :
        \E f \in Files, end \in 0..(ByteSize * ByteSize) :
            /\ DOMAIN cfs[t] = {to_be_bytes(ip) : ip \in {from \in f : from < end}}
            /\ \A k \in DOMAIN cfs[t] : cfs[t][k].file = f

\* The row of a file whose range has an address.
Covers(f, from, ip) == from <= ip /\ \A other \in f : other <= ip => other <= from

\* In a table that was imported whole, an address gets the row whose range it
\* is in, whatever the table held before, and nothing if it comes before all
\* ranges: only the beginnings are stored and compared, as bytes
\* (geo_data.rs:53, 89, 149-161).
LookupFindsRange ==
    \A t \in DOMAIN imported :
        \A ip \in Ip :
            LET f == imported[t]
            IN  IF \E from \in f : from <= ip
                THEN \E from \in f : /\ Covers(f, from, ip)
                                     /\ find(cfs[t], ip) = [file |-> f, ip_from |-> from]
                ELSE find(cfs[t], ip) = NoRow

\* If the operator runs the import of both files again and again, and it fails
\* no more, the database becomes whole and can be opened, whatever the earlier
\* failures left of it: a column family that was dropped and not created, too
\* (geo_data.rs:20, 186-190).
ImportRepairs ==
    SF_importVars(\E job \in [CFS -> Files] : Open(job)) /\ <>[][~FailImport]_importVars =>
        []<>(CanOpen /\ DOMAIN imported = CFS)
=============================================================================
