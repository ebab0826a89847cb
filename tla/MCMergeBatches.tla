--------------------------- MODULE MCMergeBatches ---------------------------
EXTENDS DriveMerge, TLC

CONSTANTS MaxLength, MaxTied

\* Names 1 to 3 are those of images, which become x-image.pdf of their own.
MCConverted == [n \in 1..3 |-> <<"image", n>>]

\* Long lists, and all short ones with ties of the orders.  The page that
\* sends the form keeps one file of a name.
Descending(n) == [i \in 1..n |-> [order |-> n - i, name |-> i]]
Tied(n)       == {[i \in 1..n |-> [order |-> order[i], name |-> name[i]]] :
                    order \in [1..n -> 1..2], name \in Injection(1..n, 1..n)}


\* Files named like parts: merge-part-r1-b0.pdf, r1-b3 and r2-b0, and a file
\* named like the output.
MCNamed == (40 :> <<"part", 1, 0>>) @@ (41 :> <<"part", 1, 3>>) @@ (42 :> <<"part", 2, 0>>)
        @@ (43 :> <<"output">>)

\* Three such files need no parts, and six need r1-b0 and r1-b1 only.  The
\* output cannot be written over one of its own inputs.
Inputs(names) == [i \in DOMAIN names |-> [order |-> i, name |-> names[i]]]
MCClose == {Inputs(<<40, 41, 42>>), Inputs(<<41, 42, 4, 5, 6, 7>>), Inputs(<<4, 43>>)}

MCJobs == {Descending(n) : n \in 0..MaxLength} \union UNION {Tied(n) : n \in 1..MaxTied} \union MCClose

\* The fourth file is overwritten by the part of the first three.
ClashJobs == {Inputs(<<4, 5, 6, 40>>)}

\* A Drive folder: orders that tie, a text file, a name without a number.
MCFiles     == 1..6
MCExtracted == <<2, 1, 1, 3, 1>>
MCFolded    == [f \in MCFiles |-> f]

\* Go has 2-B.pdf before 2-a.pdf, the page the other way round.
CaseExtracted == [f \in 1..2 |-> 2]
CaseFolded    == [f \in 1..2 |-> 3 - f]

NoFiles == << >>
NoJobs  == {}
OneFile == <<1>>

\* scan.png and scan.jpg both become scan-image.pdf.
ScanConverted == [n \in 1..2 |-> <<"image", "scan">>]
ScanJobs      == {[i \in 1..2 |-> [order |-> order[i], name |-> i]] : order \in [1..2 -> 1..8]}
=============================================================================
