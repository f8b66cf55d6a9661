------------------------------ MODULE Dtbtool -------------------------------
(***************************************************************************)
(* dtbtool/dtbtool.c: the tool that packs the device trees of every board  *)
(* into one image.  It reads each .dtb of a directory, keeps the list of   *)
(* the boards in the order the bootloader searches it, and then writes a   *)
(* header, a table of the boards and each file once.  Readdir may give the *)
(* files in any order, a file may change or go while the tool runs, and    *)
(* writes may fail or fall short.  The output is opened without being cut: *)
(* what an earlier, longer image had behind the new one stays.             *)
(***************************************************************************)
EXTENDS Integers, Sequences, SequencesExt

CONSTANTS Tree,        \* the device trees that may be in a file
          FileName,    \* the .dtb files of the directory
          Size,        \* their sizes in bytes
          Earlier,     \* the sizes of an output that is there already
          page_size

\* A tree: its version, the entries of qcom,msm-id and of qcom,board-id.  An
\* entry of version 1 is <<chipset, platform, revNum>>, one of version 2
\* <<chipset, revNum>> and its boards <<platform, subtype>>.
ASSUME DtbAssumption ==
  /\ page_size \in Nat \ {0} /\ Size \subseteq Nat /\ Earlier \subseteq Nat
  /\ \A tree \in Tree :
       /\ tree.board \in Seq(Nat \X Nat)
       /\ tree.msm \in IF tree.board = <<>> THEN Seq(Nat \X Nat \X Nat) ELSE Seq(Nat \X Nat)

VARIABLES
  dir,         \* the files that are there: their tree and size
  scanned,     \* the files readdir has returned
  chip_list,   \* the boards found, in order: the board, the file and dtb_size of its master
  phase,       \* "scan", "write", "done"
  master_offset, \* where the table says each file's tree begins
  blocks,      \* the trees written, in order: file, tree, where it begins, if what went
               \* before was written whole, and its bytes
  expected,
  offered, lacking, \* the bytes given to write(), and those it did not write
  output,      \* the bytes in the output file
  rc,
  changed,     \* the directory has been disturbed
  first        \* ghost: the trees whose boards were accepted, in the order of the scan

dtbVars == <<dir, scanned, chip_list, phase, master_offset, blocks, expected, offered, lacking,
             output, rc, changed, first>>
image   == <<blocks, offered, lacking, output>>

DtbInit ==
  /\ dir \in [FileName -> [tree : Tree, size : Size]]
  /\ scanned = {} /\ chip_list = <<>> /\ phase = "scan"
  /\ master_offset = [f \in FileName |-> 0]
  /\ blocks = <<>> /\ expected = 0 /\ offered = 0 /\ lacking = 0 /\ rc = "SUCCESS"
  /\ output \in Earlier
  /\ changed = FALSE /\ first = <<>>

\* A list built by inserting each entry behind the head: the head stays, the
\* others come out in reverse.
Linked(s) == IF s = <<>> THEN <<>> ELSE <<Head(s)>> \o Reverse(Tail(s))

\* The tag that only trees of version 2 have decides.
GetVersionInfo(tree) == IF tree.board # <<>> THEN 2 ELSE 1

\* Every pair of an id and a board, the ids outermost.
Cross(ids, boards) ==
  [i \in 1..(Len(ids) * Len(boards)) |->
     LET id == ids[((i - 1) \div Len(boards)) + 1]
         b  == boards[((i - 1) % Len(boards)) + 1]
     IN <<id[1], b[1], b[2], id[2]>>]

\* The boards of a tree: chipset, platform, subtype and revision.  No board: skipped.
getChipInfo(tree) ==
  IF GetVersionInfo(tree) = 1
  THEN Linked([i \in DOMAIN tree.msm |-> <<tree.msm[i][1], tree.msm[i][2], 0, tree.msm[i][3]>>])
  ELSE Linked(Cross(Linked(tree.msm), Linked(tree.board)))

Before(b, c) == \E i \in 1..4 : b[i] < c[i] /\ \A j \in 1..(i - 1) : b[j] = c[j]

\* The list with the chip at its place: the same list when the board is there.
chip_add(list, chip) ==
  LET at == {i \in DOMAIN list : Before(chip.board, list[i].board)}
      here == IF at = {} THEN Len(list) + 1 ELSE CHOOSE i \in at : \A j \in at : i <= j
  IN IF \E i \in DOMAIN list : list[i].board = chip.board THEN list
     ELSE InsertAt(list, here, chip)

\* A whole number of pages, one more when the size already is one.
RoundUp(n) == n + (page_size - (n % page_size))

\* The boards of a file after the first are added or skipped one by one.
addRest(list, boards, f) ==
  LET added[n \in 0..Len(boards)] ==
        IF n = 0 THEN list
        ELSE chip_add(added[n - 1], [board |-> boards[n], master |-> f, dtb_size |-> RoundUp(dir[f].size)])
  IN added[Len(boards)]

\* One round of the loop over the directory.  A first board that is known
\* already skips its file, whatever the others are.
Scan(f) ==
  /\ phase = "scan" /\ f \in DOMAIN dir \ scanned
  /\ scanned' = scanned \cup {f}
  /\ LET chips == getChipInfo(dir[f].tree)
         head  == [board |-> chips[1], master |-> f, dtb_size |-> RoundUp(dir[f].size)]
         more  == chip_add(chip_list, head)
     IN IF chips = <<>> \/ dir[f].size = 0
        THEN UNCHANGED <<chip_list, rc, first>>
        ELSE IF more = chip_list
        THEN rc' = "ERROR" /\ UNCHANGED <<chip_list, first>>
        ELSE /\ chip_list' = addRest(more, Tail(chips), f)
             /\ rc' = IF Len(chips) > 1 /\ addRest(more, Tail(chips), f) = addRest(more, Front(Tail(chips)), f)
                      THEN "ERROR" ELSE "SUCCESS"
             /\ first' = Append(first, [file |-> f, tree |-> dir[f].tree])
  /\ UNCHANGED <<dir, phase, master_offset, expected, image, changed>>

Header(n) == 12 + 24 * n + 4

\* The table before its first board is met: no file has a place.
NoPlace(list) == [offset |-> [f \in FileName |-> 0], expected |-> RoundUp(Header(Len(list)))]

NewPlace(l, c) ==
  [offset |-> [l.offset EXCEPT ![c.master] = l.expected], expected |-> l.expected + c.dtb_size]

\* Mutant: each board of the table gets a place of its own.
LayoutPerBoard(list) ==
  LET laid[n \in 0..Len(list)] == IF n = 0 THEN NoPlace(list) ELSE NewPlace(laid[n - 1], list[n])
  IN  laid

\* The offsets of the table after each of its boards: a master gets its place
\* when it is met first.
Layout(list) ==
  LET laid[n \in 0..Len(list)] ==
        IF n = 0 THEN NoPlace(list)
        ELSE IF laid[n - 1].offset[list[n].master] # 0 THEN laid[n - 1]
        ELSE NewPlace(laid[n - 1], list[n])
  IN  laid

\* The sum of what write() returned.
wrote == offered - lacking

\* n bytes are given to write().  A failure counts as -1 and a full device as
\* less than n; how much is lacking makes no difference.
WriteOut(n) ==
  /\ offered' = offered + n
  /\ lacking' \in {lacking, lacking + 1}
  /\ output' = IF output < wrote' THEN wrote' ELSE output

\* The directory has been read: the header, the table and its padding.  That
\* the output could not be opened is not noticed; every write then fails.
WriteTable ==
  /\ phase = "scan" /\ DOMAIN dir \subseteq scanned
  /\ IF chip_list = <<>>
     THEN phase' = "done" /\ UNCHANGED <<master_offset, expected, offered, lacking, output, rc>>
     ELSE /\ phase' = "write"
          /\ master_offset' = Layout(chip_list)[Len(chip_list)].offset
          /\ expected' = Layout(chip_list)[Len(chip_list)].expected
          /\ WriteOut(RoundUp(Header(Len(chip_list))))
          /\ rc' = "SUCCESS"
  /\ UNCHANGED <<dir, scanned, chip_list, blocks, changed, first>>

wroteDtb == {blocks[i].file : i \in DOMAIN blocks}
Unwritten == {i \in DOMAIN chip_list : chip_list[i].master \notin wroteDtb}

\* The next tree of the list is copied; a file that is gone, or whose size is
\* not the one the table has, ends the writing.
WriteDtb ==
  /\ phase = "write" /\ Unwritten # {} /\ rc = "SUCCESS"
  /\ LET i == CHOOSE x \in Unwritten : \A y \in Unwritten : x <= y
         f == chip_list[i].master
     IN IF f \notin DOMAIN dir
        THEN rc' = "ERROR" /\ UNCHANGED image
        ELSE /\ blocks' = Append(blocks, [file |-> f, tree |-> dir[f].tree, at |-> offered,
                                          size |-> dir[f].size])
             /\ IF RoundUp(dir[f].size) # chip_list[i].dtb_size
                THEN rc' = "ERROR" /\ WriteOut(dir[f].size)
                ELSE UNCHANGED rc /\ WriteOut(chip_list[i].dtb_size)
  /\ UNCHANGED <<dir, scanned, chip_list, phase, master_offset, expected, changed, first>>

\* The sizes are compared; a failure removes the output.
CloseOutput ==
  /\ phase = "write" /\ (Unwritten = {} \/ rc = "ERROR")
  /\ phase' = "done"
  /\ rc' = IF expected # wrote THEN "ERROR" ELSE rc
  /\ output' = IF rc' = "ERROR" THEN 0 ELSE output
  /\ UNCHANGED <<dir, scanned, chip_list, master_offset, blocks, expected, offered, lacking,
                 changed, first>>

\* The build writes or removes one of the files while the tool runs.
Disturb(f) ==
  /\ ~changed /\ phase # "done" /\ f \in DOMAIN dir
  /\ changed' = TRUE
  /\ \/ \E tree \in Tree, size \in Size : dir' = [dir EXCEPT ![f] = [tree |-> tree, size |-> size]]
     \/ dir' = [g \in DOMAIN dir \ {f} |-> dir[g]]
  /\ UNCHANGED <<scanned, chip_list, phase, master_offset, expected, image, rc, first>>

DtbNext == (\E f \in FileName : Scan(f) \/ Disturb(f)) \/ WriteTable \/ WriteDtb \/ CloseOutput

DtbSpec == DtbInit /\ [][DtbNext]_dtbVars

-----------------------------------------------------------------------------
DtbTypeOK ==
  /\ DOMAIN dir \subseteq FileName /\ scanned \subseteq FileName
  /\ phase \in {"scan", "write", "done"} /\ rc \in {"SUCCESS", "ERROR"}
  /\ \A i \in DOMAIN chip_list : chip_list[i].master \in FileName
  /\ lacking \in Nat /\ output \in Nat

Built == phase = "done" /\ rc = "SUCCESS" /\ chip_list # <<>>

(* An image that is kept can be booted from: the boards of its table are   *)
(* in order and no board is there twice, and the offset and the size a     *)
(* board is given are those of a tree of the file that was accepted for    *)
(* it, whole, on a page of its own, with nothing between the trees.  It is *)
(* the tree that was accepted if nobody disturbed the directory: a file    *)
(* rewritten with as many pages is taken for the one that was scanned.     *)
(* The image is kept if nothing was disturbed and every write was whole,   *)
(* and removed if a write fell short.                                      *)
Bootable ==
  /\ phase = "done" /\ ~changed /\ lacking = 0 => rc = "SUCCESS"
  /\ phase = "done" /\ rc = "ERROR" => output = 0
  /\ \A i, j \in DOMAIN chip_list : i < j => Before(chip_list[i].board, chip_list[j].board)
  /\ Built =>
       /\ lacking = 0 /\ wrote = expected /\ wrote <= output
       /\ \A i \in DOMAIN chip_list :
            \E b \in 1..Len(blocks) :
              /\ blocks[b].file = chip_list[i].master
              /\ ~changed => \E n \in DOMAIN first : /\ first[n].file = blocks[b].file
                                                   /\ first[n].tree = blocks[b].tree
              /\ blocks[b].at = master_offset[chip_list[i].master]
              /\ blocks[b].at % page_size = 0
              /\ blocks[b].size < chip_list[i].dtb_size
              /\ blocks[b].at + chip_list[i].dtb_size
                   = IF b = Len(blocks) THEN wrote ELSE blocks[b + 1].at

(* The table has every board of every file that was accepted, and a board  *)
(* that several of them have goes to the one that was read first.          *)
FirstWins ==
  \A n \in 1..Len(first) : \A b \in Range(getChipInfo(first[n].tree)) :
    \E i \in DOMAIN chip_list :
      /\ chip_list[i].board = b
      /\ \E m \in 1..n : chip_list[i].master = first[m].file

(* The image that is kept is bootable, and its table gives a board to the  *)
(* file that was read first (dtbtool.c).                                   *)
DtbTable == Bootable /\ FirstWins
=============================================================================
