------------------------------- MODULE Pconf --------------------------------
(***************************************************************************)
(* The configuration of conf/pconf.cpp: the parser is a function of what   *)
(* ConfFile has read into the buffer, and the look-ups are functions of    *)
(* the tree.                                                               *)
(*                                                                         *)
(* A text is a sequence of characters, one of each kind that the parser    *)
(* tells apart: Names may be in names and values, Others in values only    *)
(* ("#" and "}" are among the characters that values may hold), and        *)
(* Keyword stands for the keyword proc.  Line numbers, which only messages *)
(* use, are left out.  A list of CN_S nodes is a sequence; the empty node  *)
(* that ends every list of the code is left out of it.                     *)
(***************************************************************************)
EXTENDS ConfFile, FiniteSets, SequencesExt

CONSTANTS
  Names, Others, Keyword,
  CONF_NAMEL, CONF_VARL

ASSUME KeywordAssumption == Keyword \in Names

NULL == 0

validname(p) == At(p) \in Names
validvalue(p) == At(p) \in Names \cup Others

(* rc_strncpy of the characters from p to before q into l bytes. *)
rc_strncpy(l, p, q) ==
  IF q - p < l - 1 THEN SubSeq(text, p, q - 1) ELSE SubSeq(text, p, p + l - 2)

-----------------------------------------------------------------------------
(* The first position from p on with P, or the end. *)
Skip(p, P(_)) ==
  LET stop == {q \in p..end-1 : ~P(q)}
  IN  IF stop = {} THEN IF p > end THEN p ELSE end
      ELSE CHOOSE q \in stop : \A r \in stop : q <= r

RECURSIVE jumpcomment(_)
jumpcomment(p) ==
  IF At(p) # "#" THEN p
  ELSE LET q == Skip(p, LAMBDA r : text[r] # "newline")
       IN  IF q >= end THEN q ELSE jumpcomment(q + 1)

(* Mutant: a comment is only skipped at the beginning of a line. *)
jumpspace_plain(p) == Skip(p, LAMBDA q : At(q) \in {"space", "newline"})

RECURSIVE jumpspace(_)
jumpspace(p) ==
  CASE p < end /\ At(p) \in {"space", "newline"} -> jumpspace(p + 1)
    [] p < end /\ At(p) = "#" -> jumpspace(jumpcomment(p))
    [] OTHER -> p

(* The results: where to go on, and the name or value, NULL when there is  *)
(* none, "unset" when the variable of the caller is left as it is.         *)
find_valid_name(p) ==
  LET To(b, e) == [p |-> e, o |-> rc_strncpy(CONF_NAMEL, b, e)]
      From(b) == IF b >= end THEN [p |-> b, o |-> <<"unset">>]
                 ELSE IF ~validname(b) THEN [p |-> b, o |-> <<"NULL">>]
                 ELSE To(b, Skip(b, validname))
  IN  From(jumpspace(p))

find_valid_array_value(p) ==
  LET To(b, e) == [p |-> jumpspace(e), o |-> rc_strncpy(CONF_VARL, b, e)]
      From(b) == IF b >= end \/ ~validvalue(b) THEN [p |-> b, o |-> <<"NULL">>]
                 ELSE To(b, Skip(b, validvalue))
  IN  From(jumpspace(p))

find_valid_value(p) ==
  LET Ended(v) == IF v.o = <<"NULL">> \/ At(v.p) # ";" THEN [p |-> v.p, o |-> <<"NULL">>]
                  ELSE [v EXCEPT !.p = @ + 1]
  IN  Ended(find_valid_array_value(p))

is_sub_node(p) == At(jumpspace(p)) = "{"
is_array_node(p) == At(jumpspace(p)) = "["

Failed(level) == [p |-> NULL, level |-> level, nodes |-> <<>>]

(* parse_arraylh from the nodes it has; comma: common_need. *)
RECURSIVE parse_arraylh(_, _, _, _)
parse_arraylh(p, level, nodes, comma) ==
  LET q == jumpspace(p)
      v == find_valid_array_value(IF comma THEN q + 1 ELSE q)
  IN  IF q >= end THEN Failed(level)
      ELSE IF At(q) = "]" THEN [p |-> q + 1, level |-> level - 1, nodes |-> nodes]
      ELSE IF (comma /\ At(q) # ",") \/ v.o = <<"NULL">> \/ v.p >= end THEN Failed(level)
      ELSE parse_arraylh(v.p, level, Append(nodes, [type |-> "array_ele", var |-> v.o]), TRUE)

(* parse_smodlh and parse_main from what they have so far, r; one round of *)
(* their loops is parse_node, for the name f that has been found.          *)
RECURSIVE parse_smodlh(_), parse_node(_, _, _)
parse_smodlh(r) ==
  LET q == jumpspace(r.p)
      Named(f) == IF f.o = <<"NULL">> \/ f.p >= end THEN Failed(r.level)
                  ELSE parse_smodlh(parse_node(f, r, FALSE))
  IN  IF r.p = NULL THEN Failed(r.level)
      ELSE IF r.p >= end THEN r
      ELSE IF q >= end THEN Failed(r.level)
      ELSE IF At(q) = "}" THEN [p |-> q + 1, level |-> r.level - 1, nodes |-> r.nodes]
      ELSE Named(find_valid_name(q))

parse_node(f, r, top) ==
  LET Inside(p) == [p |-> p, level |-> r.level + 1, nodes |-> <<>>]
      Node(t, name, l) == [l EXCEPT !.nodes =
                             Append(r.nodes, [type |-> t, modn |-> name, smodlh |-> @])]
      Array(q) == IF q >= end THEN Inside(q) ELSE parse_arraylh(q, r.level + 1, <<>>, FALSE)
      Char(v) == IF v.o = <<"NULL">> \/ v.p >= end THEN Failed(r.level)
                 ELSE [p |-> v.p, level |-> r.level, nodes |->
                         Append(r.nodes, [type |-> "char_t", modn |-> f.o, var |-> v.o])]
      Proc(mod, brace) ==
        IF ~top \/ mod.o \in {<<"NULL">>, <<"unset">>} \/ mod.p >= end \/ At(brace) # "{"
        THEN Failed(r.level)
        ELSE Node("proc_mod_t", mod.o, parse_smodlh(Inside(brace + 1)))
      Module(mod) == Proc(mod, jumpspace(mod.p))
  IN  IF is_sub_node(f.p) THEN Node("subnode_t", f.o, parse_smodlh(Inside(jumpspace(f.p) + 1)))
      ELSE IF is_array_node(f.p) THEN Node("array_t", f.o, Array(jumpspace(f.p) + 1))
      ELSE IF f.o = <<Keyword>> THEN Module(find_valid_name(f.p))
      ELSE Char(find_valid_value(f.p))

RECURSIVE parse_main(_)
parse_main(r) ==
  LET Named(f) ==
        IF f.o = <<"NULL">> \/ (f.o = <<"unset">> /\ r.nodes = <<>> /\ junk) THEN Failed(r.level)
        ELSE IF f.p >= end THEN [r EXCEPT !.p = f.p]
        ELSE parse_main(parse_node(f, r, TRUE))
  IN  IF r.p = NULL THEN Failed(r.level)
      ELSE IF r.p >= end THEN r
      ELSE Named(find_valid_name(r.p))

Parsed == parse_main([p |-> 1, level |-> 0, nodes |-> <<>>])

(* Mutant: the level is not looked at. *)
parse_level ==
  LET r == Parsed
  IN  [isparsed |-> r.p = end, nodes |-> r.nodes]

parse ==
  LET r == Parsed
  IN  [isparsed |-> r.p = end /\ r.level = 0, nodes |-> r.nodes]

-----------------------------------------------------------------------------
(* Mutant: the type of the node is not looked at. *)
get_value_from_node_any(nodes, vn) ==
  LET i == SelectInSeq(nodes, LAMBDA n : n.modn = vn)
  IN  IF i = 0 \/ nodes[i].type # "char_t" THEN 0 ELSE i

(* The look-ups answer with a position in the list, 0 for NULL. *)
get_value_from_node(nodes, vn) ==
  SelectInSeq(nodes, LAMBDA n : n.type = "char_t" /\ n.modn = vn)

get_submod_from_node(nodes, mn) ==
  SelectInSeq(nodes, LAMBDA n : n.type = "subnode_t" /\ n.modn = mn)

get_array_from_node(nodes, mn) ==
  SelectInSeq(nodes, LAMBDA n : n.type = "array_t" /\ n.modn = mn)

get_proc_mod(nodes) == SelectInSeq(nodes, LAMBDA n : n.type = "proc_mod_t")

(* The node after the last element is empty and ends the count. *)
get_size_from_array(node) ==
  LET i == SelectInSeq(node.smodlh, LAMBDA n : n.type # "array_ele")
  IN  IF node.type # "array_t" THEN 0 ELSE IF i = 0 THEN Len(node.smodlh) ELSE i - 1

get_value_from_array_by_index(node, index) ==
  IF index \in 0..get_size_from_array(node)-1 THEN index + 1 ELSE 0

-----------------------------------------------------------------------------
Parse == Parsing /\ result' = parse

Next == readconf \/ Read \/ Parse \/ destroy

Spec == Init /\ [][Next]_vars

Accepted == pc = "done" /\ result.isparsed
tree == result.nodes

-----------------------------------------------------------------------------
(* What was written as a tree, with spaces, lines and comments between its *)
(* words, is read as that tree: a comment or a line never ends a value, a  *)
(* value with '}' or '#' in it never ends a list, whatever the nesting.    *)
RoundTrip == source # <<>> /\ pc = "done" => Accepted /\ tree = source

(* A tree as text without spaces. *)
RECURSIVE Flat(_)
Flat(nodes) ==
  IF nodes = <<>> THEN <<>>
  ELSE LET n == Head(nodes)
           comma == IF Len(nodes) > 1 THEN <<",">> ELSE <<>>
           words == CASE n.type = "char_t" -> n.modn \o n.var \o <<";">>
                      [] n.type = "subnode_t" -> n.modn \o <<"{">> \o Flat(n.smodlh) \o <<"}">>
                      [] n.type = "array_t" -> n.modn \o <<"[">> \o Flat(n.smodlh) \o <<"]">>
                      [] n.type = "proc_mod_t" ->
                           <<Keyword>> \o n.modn \o <<"{">> \o Flat(n.smodlh) \o <<"}">>
                      [] OTHER -> n.var \o comma
       IN  words \o Flat(Tail(nodes))

(* No word of the text is longer than what a name may be. *)
WordsFit ==
  \A i \in 1..Len(text)-CONF_NAMEL+1 :
    \E j \in i..i+CONF_NAMEL-1 : text[j] \notin Names \cup Others

(* A text without comments that is accepted is in the tree to the last     *)
(* character, every list closed, but for a bare name at its very end,      *)
(* which parse_main passes over, and for words too long, which are cut so  *)
(* that names and values fit their arrays with a zero.                     *)
NothingLost ==
  Accepted =>
    /\ "#" \notin ToSet(text) /\ WordsFit =>
         \E k \in 0..Len(text) :
           /\ SelectSeq(text, LAMBDA c : c \notin {"space", "newline"})
                = Flat(tree) \o SubSeq(text, Len(text) - k + 1, Len(text))
           /\ \A i \in Len(text)-k+1..Len(text) : text[i] \in Names
    /\ \A i \in DOMAIN tree :
         /\ Len(tree[i].modn) < CONF_NAMEL
         /\ tree[i].type = "char_t" => Len(tree[i].var) < CONF_VARL

(* Positions of the nodes of a type with a name. *)
Of(nodes, t, name) == {i \in DOMAIN nodes : nodes[i].type = t /\ nodes[i].modn = name}

(* The look-ups answer with the first node of the name among those of the  *)
(* type asked for, also when nodes of another type have that name, and     *)
(* with NULL when there is none; an array has its elements at 0 to n - 1.  *)
LookupsAgree ==
  Accepted =>
    /\ \A i \in 1..Len(tree) : tree[i].type = "proc_mod_t" => get_proc_mod(tree) \in 1..i
    /\ \A name \in {tree[i].modn : i \in DOMAIN tree} :
      LET First(i, t) == LET S == Of(tree, t, name)
                         IN  IF S = {} THEN i = 0 ELSE i \in S /\ \A j \in S : i <= j
          array == get_array_from_node(tree, name)
      IN  /\ First(get_value_from_node(tree, name), "char_t")
          /\ First(get_submod_from_node(tree, name), "subnode_t")
          /\ First(array, "array_t")
          /\ array # 0 =>
               LET n == Len(tree[array].smodlh) IN
               /\ get_size_from_array(tree[array]) = n
               /\ \A k \in 0..n : get_value_from_array_by_index(tree[array], k)
                                    = IF k = n THEN 0 ELSE k + 1
=============================================================================
