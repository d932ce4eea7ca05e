------------------------------ MODULE IPTables ------------------------------
(***************************************************************************)
(* The nat table, as the commands iptables, iptables-save and              *)
(* iptables-restore --noflush keep it: its chains, each with its rules in  *)
(* order.  A rule is [on, to]: what it matches and where it sends the      *)
(* packet.  Chain names and matches are tuples that begin with their kind. *)
(***************************************************************************)
EXTENDS Sequences, SequencesExt

Rule(on, to) == [on |-> on, to |-> to]

BuiltIn == {<<"PREROUTING">>, <<"OUTPUT">>, <<"POSTROUTING">>}
EmptyTable == [c \in BuiltIn |-> <<>>]

EnsureChain(t, c) == IF c \in DOMAIN t THEN t ELSE t @@ (c :> <<>>)

\* A rule that is in the chain already stays where it is.
EnsureRule(t, c, r) == IF Contains(t[c], r) THEN t ELSE [t EXCEPT ![c] = Append(@, r)]

\* The lines of an input of iptables-restore.
ChainLine(c) == [op |-> ":", chain |-> c, rule |-> Rule(<<>>, <<>>)]
RuleLine(op, c, r) == [op |-> op, chain |-> c, rule |-> r]
DeleteLine(c) == [op |-> "-X", chain |-> c, rule |-> Rule(<<>>, <<>>)]

\* Every rule of the chains cs, as "-A" lines.
SaveInto(t, cs) ==
  LET save(c) == [i \in DOMAIN t[c] |-> RuleLine("-A", c, t[c][i])]
  IN FoldSet(LAMBDA c, lines : lines \o save(c), <<>>, cs)

\* A line that is neither a chain nor a command is a "Bad argument".
Understood(lines) == \A i \in DOMAIN lines : lines[i].op \in {":", "-A", "-I", "-X"}

\* A chain that is declared is made, or flushed; a rule is added, be it there or not.
restoreLine(t, line) ==
  CASE line.op = ":" -> [EnsureChain(t, line.chain) EXCEPT ![line.chain] = <<>>]
    [] line.op = "-A" -> [t EXCEPT ![line.chain] = Append(@, line.rule)]
    [] line.op = "-I" -> [t EXCEPT ![line.chain] = <<line.rule>> \o @]
    [] line.op = "-X" -> [c \in DOMAIN t \ {line.chain} |-> t[c]]

\* All lines, or none.
RestoreAll(t, lines) == IF Understood(lines) THEN FoldLeft(restoreLine, t, lines) ELSE t
=============================================================================
