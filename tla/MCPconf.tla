------------------------------ MODULE MCPconf -------------------------------
EXTENDS Pconf

Long == [i \in 1..7 |-> "a"]

(* All short texts of two sets of characters, and words that are too long. *)
MCTexts ==
  {Long \o <<"{", "}">>, <<"a", "space">> \o Long \o <<";", "newline">>} \cup
  BoundedSeq({"a", "/", "space", ";", "{", "}", "P"}, 5)
    \cup BoundedSeq({"a", "space", ",", "[", "]", ";"}, 5)

Chars == {[type |-> "char_t", modn |-> n, var |-> v] :
            n \in {<<"a">>, <<"b", "a">>}, v \in {<<"b">>, <<"/", "#">>, <<"a", "}">>}}

Arrays == {[type |-> "array_t", modn |-> <<"a">>, smodlh |-> e] :
             e \in BoundedSeq({[type |-> "array_ele", var |-> v] : v \in {<<"b">>, <<"/", "#">>}}, 2)}

Subs(S) == {[type |-> "subnode_t", modn |-> <<"a">>, smodlh |-> s] : s \in BoundedSeq(S, 1)}

Procs(S) == {[type |-> "proc_mod_t", modn |-> <<"b">>, smodlh |-> s] : s \in BoundedSeq(S, 1)}

Level1 == Chars \cup Arrays
Level2 == Level1 \cup Subs(Level1)
Trees == BoundedSeq(Level2 \cup Procs(Level2), 2) \ {<<>>}

Gaps == {<<"space">>, <<"newline">>, <<"space", "#", "a", "newline">>,
         <<"newline", "#", "}", "newline", "#", "newline", "space">>}

(* The words of a tree, each with a gap behind it. *)
RECURSIVE Write(_, _)
Write(nodes, g) ==
  IF nodes = <<>> THEN <<>>
  ELSE LET n == Head(nodes)
           comma == IF Len(nodes) > 1 THEN <<",">> \o g ELSE <<>>
           List(o, c) == n.modn \o g \o <<o>> \o g \o Write(n.smodlh, g) \o <<c>> \o g
           words == CASE n.type = "char_t" -> n.modn \o g \o n.var \o g \o <<";">> \o g
                      [] n.type = "subnode_t" -> List("{", "}")
                      [] n.type = "array_t" -> List("[", "]")
                      [] n.type = "proc_mod_t" -> <<Keyword>> \o g \o List("{", "}")
                      [] OTHER -> n.var \o g \o comma
       IN  words \o Write(Tail(nodes), g)

MCSources == {<<Write(t, g), t>> : t \in Trees, g \in Gaps}
=============================================================================
