--------------------------- MODULE InterfaceImage ---------------------------
(***************************************************************************)
(* The bytes of an interface file: a header with two byte sums, then the   *)
(* records, each an id, a length, a payload and padding                    *)
(* (ODqmIfWriter and ODqmIfReader, compiler/ast/dqm_if.cpp).  A number     *)
(* takes one cell here and records are padded to pairs of cells.  The      *)
(* sums are sums of all cells.                                             *)
(***************************************************************************)
EXTENDS Naturals, Sequences, FiniteSets, SequencesExt

CONSTANTS Contents,    \* sequences of records, a record is [id, data]
          CellValues,  \* what a damaged cell may hold
          Versions     \* the interface versions the reader takes

Align == 2
Magic == 7
HeaderSize == 6

VARIABLES content, image, damage, answer
imageVars == <<content, image, damage, answer>>

Total(s)  == FoldLeft(LAMBDA x, y : x + y, 0, s)
Padding(n) == IF n % Align = 0 THEN <<>> ELSE <<0>>

(* AddRec *)
Record(r) == <<r.id, Len(r.data)>> \o r.data \o Padding(Len(r.data))

(* BuildFileData: the header's own sum is taken with that field zero.       *)
Image(rs, version) ==
  LET payload == FlattenSeq([i \in DOMAIN rs |-> Record(rs[i])])
      header  == <<Magic, HeaderSize, version, Len(payload), Total(payload)>>
  IN  header \o <<Total(header)>> \o payload

-----------------------------------------------------------------------------
(* NextRec over the whole payload: the records, or that it is cut short.    *)
RECURSIVE Records(_, _)
Records(bytes, done) ==
  IF bytes = <<>> THEN [ok |-> TRUE, records |-> done]
  ELSE IF Len(bytes) < 2 THEN [ok |-> FALSE]
  ELSE LET length == bytes[2]
           next   == 2 + length + Len(Padding(length))
       IN  IF next > Len(bytes) THEN [ok |-> FALSE]
           ELSE Records(SubSeq(bytes, next + 1, Len(bytes)),
                        Append(done, [id |-> bytes[1], data |-> SubSeq(bytes, 3, 2 + length)]))

(* ReadFromData *)
ReadImage(data) ==
  LET payload == SubSeq(data, HeaderSize + 1, Len(data))
  IN  IF /\ Len(data) >= HeaderSize
         /\ data[1] = Magic /\ data[2] = HeaderSize /\ data[3] \in Versions
         /\ HeaderSize + data[4] = Len(data)
         /\ Total(SubSeq(data, 1, 5)) = data[6]
         /\ Total(payload) = data[5]
      THEN Records(payload, <<>>)
      ELSE [ok |-> FALSE]

-----------------------------------------------------------------------------
ImageInit == /\ content \in Contents
             /\ \E version \in CellValues : image = Image(content, version)
             /\ damage = {} /\ answer = [ok |-> FALSE, read |-> FALSE]

Unread == ~answer.read

Truncate == /\ Unread /\ damage = {}
            /\ \E n \in 0..Len(image) - 1 : image' = SubSeq(image, 1, n)
            /\ damage' = {"cut"} /\ UNCHANGED <<content, answer>>

Change == /\ Unread /\ damage = {}
          /\ \E i \in DOMAIN image, x \in CellValues : x # image[i] /\ image' = [image EXCEPT ![i] = x]
          /\ damage' = {"changed"} /\ UNCHANGED <<content, answer>>

Extend == /\ Unread /\ damage = {}
          /\ \E x \in CellValues : image' = Append(image, x)
          /\ damage' = {"longer"} /\ UNCHANGED <<content, answer>>

Load == /\ Unread
        /\ LET r == ReadImage(image)
           IN  answer' = IF r.ok THEN [ok |-> TRUE, read |-> TRUE, records |-> r.records]
                         ELSE [ok |-> FALSE, read |-> TRUE]
        /\ UNCHANGED <<content, image, damage>>

ImageNext == Truncate \/ Change \/ Extend \/ Load

-----------------------------------------------------------------------------
ImageTypeOK == /\ damage \subseteq {"cut", "changed", "longer"}
               /\ \A i \in DOMAIN image : image[i] \in Nat

(* An interface file of a known version is read back as it was written, and *)
(* one that is cut short, too long or has one wrong cell is refused, so the *)
(* compiler builds it again instead of trusting it.                         *)
OnlyWholeFiles ==
  answer.read =>
    /\ answer.ok => damage = {} /\ answer.records = content
    /\ damage = {} /\ image[3] \in Versions => answer.ok
=============================================================================
