------------------------------ MODULE ConfFile ------------------------------
(***************************************************************************)
(* The file of conf/pconf.cpp, from open to destroy: readfile reads it     *)
(* into a buffer that grows, block by block, for the parser to look at.    *)
(* What the parser makes of it is in Pconf; here it is left open.          *)
(*                                                                         *)
(* buflen is never raised, so that every realloc asks for the same size;   *)
(* files of buflen + block_size bytes and more are left out.               *)
(***************************************************************************)
EXTENDS Integers, Sequences

CONSTANTS
  block_size,     \* 1024 in the code
  Blocks,         \* the blocks of the first buffer, 256 in the code
  Texts,          \* texts to parse
  Sources         \* texts with the tree they were written for

ASSUME SizesAssumption ==
  /\ block_size \in Nat \ {0} /\ Blocks \in Nat \ {0}
  /\ \A t \in Texts \cup {s[1] : s \in Sources} :
       Len(t) \in Nat /\ Len(t) < (Blocks + 1) * block_size

buflen == Blocks * block_size

VARIABLES
  text,       \* of the file
  source,     \* the tree the text was written for, or <<>>
  size, any,  \* bytes of the buffer, and those of them that nothing has set
  total, remain,
  outside,    \* a byte beyond the buffer has been written
  junk,       \* what name of parse_main holds before it is first set is NULL
  pc,         \* "start", "read", "failed", "parse" or "done"
  result      \* isparsed and the tree

file == <<text, source>>
buffer == <<size, any, total, remain, outside>>
vars == <<file, buffer, junk, pc, result>>

end == total + 1

(* The byte at p: the file as far as it has been read, then zeros. *)
At(p) ==
  IF p < end THEN text[p]
  ELSE IF p > size THEN "outside" ELSE IF p - 1 \in any THEN "any" ELSE "zero"

-----------------------------------------------------------------------------
Unparsed == [isparsed |-> FALSE, nodes |-> <<>>]

Init ==
  /\ text = <<>> /\ source = <<>>
  /\ size = 0 /\ any = {} /\ total = 0 /\ remain = 0 /\ outside = FALSE
  /\ junk = FALSE /\ pc = "start" /\ result = Unparsed

(* The file is opened, or not, and the buffer allocated and cleared. *)
readconf ==
  /\ pc = "start"
  /\ \/ text' \in Texts /\ source' = <<>>
     \/ \E s \in Sources : text' = s[1] /\ source' = s[2]
  /\ \/ pc' = "read" /\ size' = buflen
     \/ pc' = "failed" /\ UNCHANGED size
  /\ any' = {} /\ total' = 0 /\ remain' = block_size /\ outside' = FALSE
  /\ UNCHANGED <<junk, result>>

(* realloc: what is new in the buffer is not set. *)
realloc == buflen + block_size

(* Mutant: the new part of the buffer is not cleared. *)
readfile_any(n) ==
  /\ total' = total + n
  /\ remain' = IF remain = n THEN block_size ELSE remain - n
  /\ outside' = (outside \/ total + n > size)
  /\ IF remain = n
     THEN size' = realloc /\ any' = (any \cup size..realloc-1) \ (total..total+n-1)
     ELSE UNCHANGED size /\ any' = any \ (total..total+n-1)

(* One round of readfile, in which read has returned n > 0 bytes. *)
readfile(n) ==
  LET read == total..total+n-1
      new == total+block_size..total+2*block_size-1
  IN  /\ total' = total + n
      /\ IF remain = n
         THEN /\ remain' = block_size /\ size' = realloc
              /\ any' = (any \cup size..realloc-1) \ (read \cup new)
              /\ outside' = (outside \/ total + n > size \/ total + 2 * block_size > realloc)
         ELSE /\ remain' = remain - n /\ any' = any \ read
              /\ outside' = (outside \/ total + n > size) /\ UNCHANGED size

(* read returns all that is asked for as long as the file has it. *)
Read ==
  LET left == Len(text) - total
      n == IF left < remain THEN left ELSE remain
  IN  /\ pc = "read"
      /\ \/ pc' = "failed" /\ UNCHANGED <<buffer, junk>>
         \/ n > 0 /\ readfile(n) /\ UNCHANGED <<pc, junk>>
         \/ n = 0 /\ pc' = "parse" /\ junk' \in BOOLEAN /\ UNCHANGED buffer
      /\ UNCHANGED <<file, result>>

(* destroy frees the tree, the destructor of pconf the text. *)
destroy ==
  /\ pc \in {"failed", "done"} /\ pc' = "start"
  /\ text' = <<>> /\ source' = <<>>
  /\ size' = 0 /\ any' = {} /\ total' = 0 /\ remain' = 0 /\ outside' = FALSE
  /\ junk' = FALSE /\ result' = Unparsed

(* The parser only looks at the buffer. *)
Parsing ==
  /\ pc = "parse" /\ pc' = "done"
  /\ UNCHANGED <<file, buffer, junk>>

FileNext == readconf \/ Read \/ Parsing \/ destroy

FileSpec == Init /\ [][FileNext]_vars

-----------------------------------------------------------------------------
(* readfile stays inside its buffer: read and memset never write beyond it *)
(* and read always has room; and what the parser gets is the whole file    *)
(* and a zero after it, on which every look at *p at the end relies, also  *)
(* when the length is a multiple of the block or that of the first buffer. *)
InBuffer ==
  /\ ~outside
  /\ pc = "read" => remain > 0 /\ total + remain <= size
  /\ pc = "parse" => total = Len(text) /\ At(end) = "zero"
=============================================================================
