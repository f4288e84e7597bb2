----------------------------- MODULE RuleTables -----------------------------
(***************************************************************************)
(* From the rules of a .l file to the tables of the scanner:               *)
(* add_rule_to_nfa() compiles one rule after the other into one NFA with   *)
(* two start states per start condition, and build_dfa() turns it into a   *)
(* DFA by the subset construction.  Generator composes these steps with    *)
(* the parsers, and states what the DFA must accept.                       *)
(***************************************************************************)
EXTENDS Patterns, SequencesExt

VARIABLES
    cond_excl,   \* for each start condition (INITIAL first) whether it is %x
    nfa, accept_rule,
    rule_bol, rule_eol, rule_boundary_states, rule_trail,
    eof_rules,   \* for each start condition, the numbers of its <<EOF>> rules
    use_eclasses,
    sets,        \* the NFA sets of the DFA's states 1, 2, ...
    next,        \* their transitions, by representative byte
    cond_starts, \* the start states of each condition
    work,        \* the states whose transitions are still missing
    pc           \* "file", "rules", "expand", "done" or "failed"

ruleVars == <<nfa, accept_rule, rule_bol, rule_eol, rule_boundary_states, rule_trail>>
nfaVars == <<cond_excl, eof_rules, ruleVars>>
dfaVars == <<sets, next, cond_starts, work>>
tableVars == <<nfaVars, dfaVars, use_eclasses, pc>>

Cond == 0 .. Len(cond_excl) - 1
RuleId == 0 .. Len(accept_rule) - 1

NoTables == /\ cond_excl = <<>> /\ eof_rules = <<>>
            /\ nfa = NoStates /\ accept_rule = <<>> /\ rule_bol = <<>> /\ rule_eol = <<>>
            /\ rule_boundary_states = <<>> /\ rule_trail = <<>>
            /\ sets = <<>> /\ next = <<>> /\ cond_starts = <<>> /\ work = <<>>
            /\ pc = "file"

(***************************************************************************)
(* init_nfa(): two start states for each condition.                        *)
(***************************************************************************)
NormalEntry(c) == 2 * c
BolEntry(c) == 2 * c + 1
InitNfa(excl) == /\ cond_excl' = excl
                 /\ eof_rules' = [i \in DOMAIN excl |-> <<>>]
                 /\ nfa' = [NoStates EXCEPT !.n = 2 * Len(excl)]

(* The conditions a rule belongs to, and the edges connect_to_conds() adds *)
(* for it.                                                                 *)
CondsOf(sites) ==
    IF sites.any_state THEN Cond
    ELSE IF sites.conds = {} THEN {c \in Cond : c = 0 \/ ~cond_excl[c + 1]}
    ELSE sites.conds
EntryEdges(entry, only_bol, sites) ==
    {<<BolEntry(c), Eps, entry>> : c \in CondsOf(sites)}
    \cup IF only_bol THEN {} ELSE {<<NormalEntry(c), Eps, entry>> : c \in CondsOf(sites)}

(* The boundaries that a rule added: those of the states it allocated.     *)
AllMarks(before, after) == after.marks
NewMarks(before, after) == {m \in after.marks : before.n <= m}

(* add_rule_to_nfa() and add_eof_rule().                                   *)
AddRule(tree, trail, sites) ==
    LET f == Compile(nfa, Body(tree))
    IN /\ nfa' = [f.nfa EXCEPT !.edges = @ \cup EntryEdges(f.s, IsBol(tree), sites)]
       /\ accept_rule' = Append(accept_rule, f.e)
       /\ rule_bol' = Append(rule_bol, IsBol(tree))
       /\ rule_eol' = Append(rule_eol, IsEol(tree))
       /\ rule_boundary_states' = Append(rule_boundary_states, NewMarks(nfa, f.nfa))
       /\ rule_trail' = Append(rule_trail, trail)
       /\ UNCHANGED <<cond_excl, eof_rules>>
AddEofRule(id, sites) ==
    /\ eof_rules' = [i \in DOMAIN eof_rules |->
                        IF i - 1 \in CondsOf(sites) THEN Append(eof_rules[i], id)
                        ELSE eof_rules[i]]
    /\ UNCHANGED <<cond_excl, ruleVars>>

(***************************************************************************)
(* The subset construction.  A byte stands for all those that no edge      *)
(* tells from it (ByteClasses); without classes it stands for itself.  The *)
(* classes are taken in the order of their first bytes: another order only *)
(* numbers the states otherwise.                                           *)
(***************************************************************************)
RECURSIVE Closure(_)
Closure(set) ==
    LET more == {e[3] : e \in {f \in nfa.edges : f[1] \in set /\ f[2] = Eps}} \ set
    IN IF more = {} THEN set ELSE Closure(set \cup more)

Targets(set, b) == {e[3] : e \in {f \in nfa.edges : f[1] \in set /\ b \in f[2]}}
Step(set, b) == Closure(Targets(set, b))

Rep(b) ==
    IF ~use_eclasses THEN b
    ELSE CHOOSE c \in Byte :
            /\ \A e \in nfa.edges : c \in e[2] <=> b \in e[2]
            /\ \A d \in Byte : (\A e \in nfa.edges : d \in e[2] <=> b \in e[2]) => c <= d
Reps == SetToSortSeq({Rep(b) : b \in Byte}, <)

None == -1
Id(set, known) == IF set \in Range(known) THEN CHOOSE i \in DOMAIN known : known[i] = set
                  ELSE Len(known) + 1

(* Seed: a state for each start set.  No two start sets are the same, as   *)
(* each holds its own start state.                                         *)
StartSets == FlattenSeq([i \in DOMAIN cond_excl |->
                 <<Closure({NormalEntry(i - 1)}), Closure({BolEntry(i - 1)})>>])
Seed == /\ sets' = StartSets
        /\ cond_starts' = [c \in Cond |-> [normal |-> Id(Closure({NormalEntry(c)}), StartSets),
                                           bol |-> Id(Closure({BolEntry(c)}), StartSets)]]
        /\ next' = [i \in DOMAIN StartSets |-> [b \in {} |-> None]]
        /\ work' = [i \in DOMAIN StartSets |-> i]
        /\ pc' = "expand"
        /\ UNCHANGED nfaVars

(* One class of the state cur: a set not seen before gets the next number  *)
(* and is put to work.                                                     *)
Numbered(d, n) == IF n \in Range(d.sets) THEN d.sets ELSE Append(d.sets, n)
QueuedAgain(d, n) == Append(d.work, Id(n, d.sets))
Queued(d, n) == IF n \in Range(d.sets) THEN d.work ELSE Append(d.work, Id(n, d.sets))
Follow(d, cur, b) ==
    LET n == Step(cur, b)
    IN IF n = {} THEN [d EXCEPT !.row = Append(@, None)]
       ELSE [row  |-> Append(d.row, Id(n, d.sets)),
             sets |-> Numbered(d, n),
             work |-> Queued(d, n)]

(* The whole row of the state at the front of the queue.                   *)
Expand == /\ pc = "expand" /\ work # <<>>
          /\ LET id == Head(work)
                 d  == FoldLeft(LAMBDA x, b : Follow(x, sets[id], b),
                                [row |-> <<>>, sets |-> sets, work |-> Tail(work)], Reps)
             IN /\ sets' = d.sets /\ work' = d.work
                /\ next' = [i \in DOMAIN d.sets |->
                               IF i = id
                               THEN [b \in Range(Reps) |->
                                        d.row[CHOOSE k \in DOMAIN Reps : Reps[k] = b]]
                               ELSE IF i \in DOMAIN next THEN next[i]
                               ELSE [b \in {} |-> None]]
          /\ UNCHANGED <<nfaVars, use_eclasses, cond_starts, pc>>

Finish == /\ pc = "expand" /\ work = <<>>
          /\ pc' = "done"
          /\ UNCHANGED <<nfaVars, dfaVars, use_eclasses>>

(***************************************************************************)
(* What accept_for() leaves in a state of the DFA.                         *)
(***************************************************************************)
AcceptList(id) == {r \in RuleId : accept_rule[r + 1] \in sets[id]}
Least(s) == IF s = {} THEN None ELSE CHOOSE r \in s : \A q \in s : r <= q
AcceptNormal(id) == Least({r \in AcceptList(id) : ~rule_eol[r + 1]})
AcceptEol(id) == Least({r \in AcceptList(id) : rule_eol[r + 1]})
BoundaryRules(id) == {r \in RuleId : rule_boundary_states[r + 1] \cap sets[id] # {}}

(***************************************************************************)
(* The walk of the scanner over a word: the state it ends in, or None.     *)
(***************************************************************************)
After(id, w) ==
    FoldLeft(LAMBDA s, b : IF s = None THEN None ELSE next[s][Rep(b)], id, w)
Start(c, bol) == IF bol THEN cond_starts[c].bol ELSE cond_starts[c].normal
=============================================================================
