------------------------------ MODULE Transfer ------------------------------
(***************************************************************************)
(* The way of a file from a browser to the key-value store and back: the   *)
(* part of a multipart form is read character by character                 *)
(* (Receive_DataBody, Receive_File_Content), encoded in base64, sent in    *)
(* chunks whose sizes go before them (handleUploadResponse, "uploadfile"), *)
(* passed on in chunks of its own to the other servers of the group        *)
(* (multicast_primitives_upload), and read back the same way from any of   *)
(* them ("downloadfile", handleDownloadResponse).                          *)
(*                                                                         *)
(* Both readers look at the character before the current one in a variable *)
(* that has no value at the start of a line: any value is possible.        *)
(***************************************************************************)
EXTENDS Integers, Sequences

CONSTANTS
    Byte,              \* bytes of files
    MaxLength,         \* bound on the length of files
    BoundaryDashes,    \* dashes that the browser's boundary begins with
    FILE_CHUNK_SIZE,
    ServerCount        \* servers of the group; the first one is the primary

CR   == 13
LF   == 10
Dash == 45
Word == 87             \* the rest of the boundary
CRLF == <<CR, LF>>

Server   == 1..ServerCount
Primary  == 1
Frontend == 0

ASSUME TransferAssumption ==
    /\ Byte \subseteq 0..255
    /\ MaxLength \in Nat
    /\ BoundaryDashes \in Nat
    /\ FILE_CHUNK_SIZE \in Nat \ {0}
    /\ ServerCount \in Nat \ {0}

VARIABLES
    file,      \* what the browser sends
    input,     \* what the frontend has not read of it
    pc,
    message,   \* the line that is being read
    prev,      \* the character before
    data,      \* rst.content
    wire,      \* per receiver: sizes, then characters, and their sender
    home,      \* the server that the upload goes to
    stored,    \* per server: the cell of the file, or that there is none
    served     \* what the browser gets back

transferVars ==
    <<file, input, pc, message, prev, data, wire, home, stored, served>>

-----------------------------------------------------------------------------
(* encode, decode: three bytes are four digits of base 64; a group that is  *)
(* not full is filled with '='.                                             *)

Pad == 64

DigitValue == <<262144, 4096, 64, 1>>
ByteValue  == <<65536, 256, 1>>

(* The bytes of group g, as one number.                                     *)
Triple(s, g) ==
    LET Part(i) == IF 3 * g + i <= Len(s) THEN s[3 * g + i] ELSE 0
    IN  Part(1) * ByteValue[1] + Part(2) * ByteValue[2] + Part(3)

(* Digit r of group g: of a group of i bytes the first i + 1 are not '='.   *)
Digit(s, g, r) ==
    IF 3 * g + r > Len(s) + 1 THEN Pad
    ELSE (Triple(s, g) \div DigitValue[r]) % 64

encode(s) ==
    [j \in 1..(4 * ((Len(s) + 2) \div 3)) |->
        Digit(s, (j - 1) \div 4, ((j - 1) % 4) + 1)]

(* Digits are read up to the first '='.                                     *)
DigitCount(t) ==
    CHOOSE n \in 0..Len(t) :
        /\ \A j \in 1..n : t[j] # Pad
        /\ n < Len(t) => t[n + 1] = Pad

(* The digits of group g, as one number.                                    *)
Quad(t, n, g) ==
    LET Part(i) == IF 4 * g + i <= n THEN t[4 * g + i] ELSE 0
    IN  Part(1) * DigitValue[1] + Part(2) * DigitValue[2]
            + Part(3) * DigitValue[3] + Part(4)

(* A last group of i digits holds i - 1 bytes.                              *)
decode(t) ==
    LET n == DigitCount(t)
        rest == n % 4
    IN  [k \in 1..(3 * (n \div 4) + (IF rest = 0 THEN 0 ELSE rest - 1)) |->
            (Quad(t, n, (k - 1) \div 3) \div ByteValue[((k - 1) % 3) + 1]) % 256]

-----------------------------------------------------------------------------
(* Chunks.                                                                  *)

(* The sizes of encoded_strings.                                            *)
UploadSizes(n) ==
    [i \in 1..((n + FILE_CHUNK_SIZE - 1) \div FILE_CHUNK_SIZE) |->
        LET left == n - (i - 1) * FILE_CHUNK_SIZE
        IN  IF left < FILE_CHUNK_SIZE THEN left ELSE FILE_CHUNK_SIZE]

(* Mutation of DownloadSizes: no chunk for what is left over.               *)
DownloadSizesFull(n) == [i \in 1..(n \div FILE_CHUNK_SIZE) |-> FILE_CHUNK_SIZE]

(* num_chunk is one more than the full chunks: the last one may be empty.   *)
DownloadSizes(n) ==
    Append([i \in 1..(n \div FILE_CHUNK_SIZE) |-> FILE_CHUNK_SIZE],
           n % FILE_CHUNK_SIZE)

(* do_read for every size, the parts joined.                                *)
Total(sizes) ==
    LET sum[i \in 0..Len(sizes)] == IF i = 0 THEN 0 ELSE sum[i - 1] + sizes[i]
    IN  sum[Len(sizes)]
ReadAll(w) == SubSeq(w.text, 1, Total(w.sizes))

-----------------------------------------------------------------------------
(* Mutation of IsEnd: the expression is "^--.+--$".                         *)
IsEndPlus(line) ==
    LET n == Len(line)
    IN  /\ n >= 5
        /\ \A i \in {1, 2, n - 1, n} : line[i] = Dash
        /\ \A i \in 1..n : line[i] \notin {CR, LF}

(* DATAEND_REG: "^--.*--$", where . is no line terminator.                  *)
IsEnd(line) ==
    LET n == Len(line)
    IN  /\ n >= 4
        /\ \A i \in {1, 2, n - 1, n} : line[i] = Dash
        /\ \A i \in 1..n : line[i] \notin {CR, LF}

Dashes(n) == [i \in 1..n |-> Dash]
EndLine   == Dashes(BoundaryDashes + 2) \o <<Word>> \o Dashes(2) \o CRLF

Files == UNION {[1..n -> Byte] : n \in 0..MaxLength}

(* What the variable without a value may hold, as far as it matters.        *)
Wild == {CR, 0}

Nothing == [sizes |-> <<>>, text |-> <<>>, from |-> Frontend, sent |-> FALSE]
NoFile  == <<-1>>
Chunks(sizes, text, from) ==
    [sizes |-> sizes, text |-> text, from |-> from, sent |-> TRUE]

(* The lines of the part's head are read; an empty line, the file and the   *)
(* end line are to come.                                                    *)
TransferInit ==
    /\ file \in Files
    /\ input = CRLF \o file \o CRLF \o EndLine
    /\ pc = "body"
    /\ message = <<>>
    /\ prev \in Wild
    /\ data = <<>>
    /\ wire = [r \in Server \cup {Frontend} |-> Nothing]
    /\ home = Frontend
    /\ stored = [r \in Server |-> NoFile]
    /\ served = <<>>

-----------------------------------------------------------------------------
Reading == pc \in {"body", "content"} /\ input # <<>>

EndsLine == Head(input) = LF /\ prev = CR

(* message.substr(0, message.length() - 1); of an empty one all of it.      *)
Line == SubSeq(message, 1, Len(message) - 1)

NewLine ==
    /\ message' = <<>>
    /\ prev' \in Wild
    /\ input' = Tail(input)

(* recv of a character within a line.                                       *)
ReadChar ==
    /\ Reading
    /\ ~EndsLine
    /\ ~(pc = "content" /\ IsEnd(message))
    /\ message' = Append(message, Head(input))
    /\ prev' = Head(input)
    /\ input' = Tail(input)
    /\ UNCHANGED <<file, pc, data, wire, home, stored, served>>

(* Receive_DataBody: an empty line is followed by the file.                 *)
EndHeadLine ==
    /\ Reading
    /\ pc = "body"
    /\ EndsLine
    /\ NewLine
    /\ pc' = CASE Line = <<>> -> "content"
               [] IsEnd(Line) -> "received"
               [] OTHER       -> "body"
    /\ data' = IF Line = <<>> THEN <<>> ELSE data
    /\ UNCHANGED <<file, wire, home, stored, served>>

(* Receive_File_Content: the end of the line is part of the file.           *)
EndFileLine ==
    /\ Reading
    /\ pc = "content"
    /\ EndsLine
    /\ NewLine
    /\ data' = data \o Line \o CRLF
    /\ UNCHANGED <<file, pc, wire, home, stored, served>>

(* The line so far looks like the end line.  The character that has just    *)
(* been read is lost, and Receive_DataBody goes on behind it.               *)
EndOfFile ==
    /\ Reading
    /\ pc = "content"
    /\ ~EndsLine
    /\ IsEnd(message)
    /\ pc' = "body"
    /\ NewLine
    /\ UNCHANGED <<file, data, wire, home, stored, served>>

(* handleUploadResponse, to a server of the user's group.                   *)
UploadTo(r) ==
    /\ pc = "received"
    /\ home' = r
    /\ wire' = [wire EXCEPT ![r] = Chunks(UploadSizes(Len(encode(data))),
                                         encode(data), Frontend)]
    /\ pc' = "uploading"
    /\ UNCHANGED <<file, input, message, prev, data, stored, served>>

(* multicast_primitives_upload: a secondary sends what it got from a        *)
(* frontend to the primary, the primary to all but the one it got it from.  *)
Receivers(r, from) ==
    CASE r = Primary                      -> Server \ {Primary, from}
      [] r # Primary /\ from = Frontend -> {Primary}
      [] OTHER                            -> {}

(* "uploadfile": without a chunk there are too few fields.                  *)
Refuse(r) ==
    /\ wire[r].sent
    /\ wire[r].sizes = <<>>
    /\ wire' = [wire EXCEPT ![r] = Nothing]
    /\ pc' = "refused"
    /\ UNCHANGED <<file, input, message, prev, data, home, stored, served>>

(* The frontend sends the chunks right behind the command: the read of the  *)
(* command takes bytes of them with it, do_read waits for as many others    *)
(* for ever, and the frontend for its answer.  A server waits a second      *)
(* before it sends a chunk.                                                 *)
Swallow(r) ==
    /\ wire[r].sent
    /\ wire[r].sizes # <<>>
    /\ wire[r].from = Frontend
    /\ wire' = [wire EXCEPT ![r] = Nothing]
    /\ pc' = "swallowed"
    /\ UNCHANGED <<file, input, message, prev, data, home, stored, served>>

(* The chunks come after the command has been read.                         *)
Store(r) ==
    LET text == ReadAll(wire[r])
        from == wire[r].from
    IN  /\ wire[r].sent
        /\ wire[r].sizes # <<>>
        /\ stored' = [stored EXCEPT ![r] = text]
        /\ wire' = [t \in DOMAIN wire |->
                       CASE t = r -> Nothing
                         [] t \in Receivers(r, from) ->
                              Chunks(DownloadSizes(Len(text)), text, r)
                         [] OTHER -> wire[t]]
        /\ pc' = IF from = Frontend THEN "stored" ELSE pc
        /\ UNCHANGED <<file, input, message, prev, data, home, served>>

(* "downloadfile" of a server that lists the file.                          *)
Fetch(r) ==
    /\ pc = "stored"
    /\ stored[r] # NoFile
    /\ wire' = [wire EXCEPT ![Frontend] =
                   Chunks(DownloadSizes(Len(stored[r])), stored[r], r)]
    /\ pc' = "downloading"
    /\ UNCHANGED <<file, input, message, prev, data, home, stored, served>>

(* handleDownloadResponse                                                   *)
Download ==
    /\ pc = "downloading"
    /\ served' = decode(ReadAll(wire[Frontend]))
    /\ wire' = [wire EXCEPT ![Frontend] = Nothing]
    /\ pc' = "served"
    /\ UNCHANGED <<file, input, message, prev, data, home, stored>>

Read == ReadChar \/ EndHeadLine \/ EndFileLine \/ EndOfFile

TransferNext ==
    \/ Read
    \/ \E r \in Server : UploadTo(r) \/ Refuse(r) \/ Swallow(r) \/ Store(r) \/ Fetch(r)
    \/ Download

TransferSpec == TransferInit /\ [][TransferNext]_transferVars

FairTransferSpec == TransferSpec /\ WF_transferVars(TransferNext)
-----------------------------------------------------------------------------
(* Properties.                                                              *)

(* Where a line of the file begins.                                         *)
LineStarts ==
    {1} \cup {i \in 3..(Len(file) + 1) : file[i - 2] = CR /\ file[i - 1] = LF}

(* Files without a line feed at the start of a line, and without a line     *)
(* that begins like the end line.                                           *)
Plain ==
    \A i \in LineStarts \cap DOMAIN file :
        /\ file[i] # LF
        /\ \A j \in i..Len(file) : ~IsEnd(SubSeq(file, i, j))

(* What the form's reader made of a file comes back from every server of    *)
(* the group that lists the file, whatever the length of its encoding is to *)
(* the size of a chunk.  Of a plain file that is the file and the end of    *)
(* its last line, whatever the variables without a value hold.              *)
ComesBack ==
    pc = "served" =>
        /\ served = data
        /\ Plain => served = file \o CRLF

(* Every upload of a plain file leaves the frontend, although the reader    *)
(* of the file stops at the fifth dash of the end line and eats it: the     *)
(* rest of the line still looks like an end line.  Unless it is refused, or *)
(* its first bytes are read with the command, it comes to every server.     *)
Spread == \A r \in Server : stored[r] # NoFile
Completes == Plain ~> pc \in {"refused", "swallowed"} \/ (pc = "served" /\ Spread)
=============================================================================
