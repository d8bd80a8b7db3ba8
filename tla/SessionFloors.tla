---------------------------- MODULE SessionFloors ----------------------------
(***************************************************************************)
(* What routing promises its sessions about the bands of their cells,      *)
(* whatever is learned, forgotten and taken back behind it: a request is   *)
(* answered within one band of what its difficulty asks for, and not below *)
(* the band of the last request for the cell, except that a cell that was  *)
(* lifted may come down one band at a time.  A session that is dropped     *)
(* starts over.                                                            *)
(***************************************************************************)
EXTENDS Integers

CONSTANTS
    Sessions, Cells,
    Band,       \* bands, low to high
    Base(_),    \* the band that the difficulty of a cell asks for
    None

VARIABLE bands  \* band of a session's last request for a cell, None before the first

Unknown == [c \in Cells |-> None]

MayFollow(c, old, band) ==
    /\ Base(c) - 1 <= band /\ band <= Base(c) + 1
    /\ \/ old = None
       \/ old # None /\ old <= band
       \/ old # None /\ old > Base(c) /\ band = old - 1

\* One request of the session for one cell.
Answer(s) ==
    \E c \in Cells, band \in Band :
        /\ MayFollow(c, bands[s][c], band)
        /\ bands'[s] = [bands[s] EXCEPT ![c] = band]

\* Whatever else happens to a session, room for others included.
KeepOrDrop(s) == bands'[s] \in {bands[s], Unknown}

FloorsInit == bands = [s \in Sessions |-> Unknown]

FloorsNext ==
    /\ bands' \in [Sessions -> [Cells -> Band \cup {None}]]
    /\ \/ \A s \in Sessions : KeepOrDrop(s)
       \/ \E s \in Sessions : Answer(s) /\ \A t \in Sessions \ {s} : KeepOrDrop(t)

FloorsSpec == FloorsInit /\ [][FloorsNext]_bands
=============================================================================
