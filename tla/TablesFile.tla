----------------------------- MODULE TablesFile -----------------------------
(***************************************************************************)
(* The tables file of --tables-file: lex writes the scanner, the tables    *)
(* and the header one after the other; a program compiled from a scanner   *)
(* loads a tables file over its own arrays with yytables_fload().          *)
(*                                                                         *)
(* Any write can fail: lex notices when a file does not open or when       *)
(* fwrite() writes less, not when the last buffer is lost in fclose().     *)
(* The loader can so meet a file that is cut off anywhere, or one that an  *)
(* earlier run of lex left for another scanner.                            *)
(***************************************************************************)
EXTENDS Integers, Sequences

CONSTANTS
    Radix,     \* values of a byte (256 in the code)
    Magic,     \* 0xF13C57B1, a word of four bytes
    Scanners,  \* the scanners that lex may be asked for
    Cuts,      \* BOUND: lengths at which a file can be cut off
    MaxRuns,   \* BOUND: runs of lex
    MaxLoads   \* BOUND: calls of yytables_fload() by one program

(* A byte; what a byte of a word weighs, the highest first; the words      *)
(* there are, and those of a C int.                                        *)
Byte == 0 .. Radix - 1
Weight == <<Radix * Radix * Radix, Radix * Radix, Radix, 1>>
Words32 == Radix * (Radix * Radix * Radix)
Int32 == {v \in Int : -Words32 <= 2 * v /\ 2 * v < Words32}

ASSUME TablesAssumption ==
    /\ Radix \in Nat /\ Radix > 1 /\ Magic \in 0 .. Words32 - 1
    /\ Cuts \subseteq Nat /\ MaxRuns \in Nat /\ MaxLoads \in Nat

None == [gen |-> 0]     \* no file, or no program
Idle == -1

(***************************************************************************)
(* A scanner is what codegen and the serialiser take from the automaton.   *)
(* nxt holds the rows of the DFA one after the other, or the pool of       *)
(* compress_dfa() with base, def and chk; meta is empty if not compressed. *)
(* A list of rules for every state, of those it accepts and of those whose *)
(* boundary it is, is kept in a pool with the offset of every state.       *)
(***************************************************************************)
Nclasses(s) == IF s.compressed THEN Len(s.meta) ELSE Len(s.nxt) \div Len(s.acc_n)
Nstates(s) == Len(s.acc_n)
Pool(s) == IF s.compressed THEN Len(s.nxt) ELSE 0

IsLists(s, off, pool) ==
    /\ off \in Seq(0 .. Len(pool)) /\ pool \in Seq(0 .. Len(s.trail) - 1)
    /\ Len(off) = Nstates(s) + 1 /\ off[1] = 0 /\ off[Len(off)] = Len(pool)
    /\ \A i \in 1 .. Nstates(s) : off[i] <= off[i + 1]

(* What the front end makes: classes, states and rules are numbered from   *)
(* 0, -1 stands for none, a comb has room for a row at every offset (see   *)
(* CombTables), and every number fits an int.                              *)
WellFormed(s) ==
    /\ s.compressed \in BOOLEAN
    /\ Nstates(s) > 0 /\ Nclasses(s) \in 1 .. Radix
    /\ {Nstates(s), Len(s.nxt), Len(s.cond_n), Len(s.trail)} \subseteq Int32
    /\ s.ec \in Seq(0 .. Nclasses(s) - 1) /\ s.meta \in Seq(Byte)
    /\ s.nxt \in Seq(-1 .. Nstates(s) - 1)
    /\ {s.acc_n, s.acc_e} \subseteq Seq(-1 .. Len(s.trail) - 1)
    /\ {s.cond_n, s.cond_b} \subseteq Seq(-1 .. Nstates(s) - 1)
    /\ s.trail \in Seq(Int32)
    /\ Len(s.acc_e) = Nstates(s) /\ Len(s.cond_b) = Len(s.cond_n)
    /\ IF s.compressed
       THEN /\ s.base \in Seq(0 .. Pool(s) - Nclasses(s))
            /\ {s.def, s.chk} \subseteq Seq(-1 .. Nstates(s) - 1)
            /\ Len(s.base) = Nstates(s) /\ Len(s.def) = Nstates(s) /\ Len(s.chk) = Pool(s)
       ELSE s.meta = <<>> /\ Len(s.nxt) = Nstates(s) * Nclasses(s)
    /\ s.reject \in BOOLEAN
    /\ {s.rule_eol, s.rule_line} \subseteq [1 .. Len(s.trail) -> Int32]
    /\ IsLists(s, s.boundary_off, s.boundary_pool)
    /\ IsLists(s, s.accept_off, s.accept_pool)

ASSUME ScannersAssumption ==
    /\ \A s \in Scanners : WellFormed(s)
    /\ \A s \in Scanners, t \in Scanners : Len(s.ec) = Len(t.ec)

(* The arrays of the generated C.  Those of the automaton are in the       *)
(* tables file too; the lines of the rules, the $ flags and accept lists   *)
(* of the REJECT body and the boundaries of variable trailing context are  *)
(* not.  An array cannot be empty: for nothing there is one 0.             *)
FileArrays(s) ==
    {"ec", "nxt", "acc_n", "acc_e", "cond_n", "cond_b", "trail"}
    \cup IF s.compressed THEN {"meta", "base", "def", "chk"} ELSE {}
OwnArrays(s) ==
    {"rule_line"}
    \cup (IF s.reject THEN {"rule_eol", "accept_off", "accept_pool"} ELSE {})
    \cup (IF \E r \in DOMAIN s.trail : s.trail[r] < 0
          THEN {"boundary_off", "boundary_pool"} ELSE {})
Arrays(s) == FileArrays(s) \cup OwnArrays(s)
MayBeEmpty == {"trail", "rule_line", "rule_eol", "accept_pool", "boundary_pool"}
Emitted(s) ==
    [a \in Arrays(s) |-> IF a \in MayBeEmpty /\ s[a] = <<>> THEN <<0>> ELSE s[a]]

(* put_u32() and yy_read_be32(): four bytes, the highest first; the word   *)
(* is read back as a signed one.                                           *)
Digit(v, k) == (v \div Weight[k + 1]) % Radix
Words(q) == [i \in 1 .. 4 * Len(q) |-> Digit(q[(i - 1) \div 4 + 1], (i - 1) % 4)]
Signed(u) == IF 2 * u >= Words32 THEN u - Words32 ELSE u
WordAt(bytes, p) ==
    Signed(bytes[p + 1] * Weight[1] + bytes[p + 2] * Weight[2]
           + bytes[p + 3] * Weight[3] + bytes[p + 4] * Weight[4])

(* serialise_tables(), for the scanner name "yy".                          *)
Name == <<0, 0>>
MetaBytes(s) == [i \in 1 .. Nclasses(s) |-> IF i <= Len(s.meta) THEN s.meta[i] ELSE i - 1]
SerialisedSwapped(s) ==
       Words(<<Magic, 1, Len(Name)>>) \o Name
    \o Words(<<IF s.compressed THEN 1 ELSE 0, Nclasses(s), Nstates(s), Len(s.trail), Pool(s)>>)
    \o s.ec \o MetaBytes(s)
    \o (IF s.compressed
        THEN Words(s.base) \o Words(s.def) \o Words(s.chk) \o Words(s.nxt)
        ELSE Words(s.nxt))
    \o Words(s.acc_n) \o Words(s.acc_e)
    \o Words(<<Len(s.cond_n)>>) \o Words(s.cond_n) \o Words(s.cond_b)
    \o Words(s.trail)
Serialised(s) ==
       Words(<<Magic, 1, Len(Name)>>) \o Name
    \o Words(<<IF s.compressed THEN 1 ELSE 0, Nclasses(s), Nstates(s), Len(s.trail), Pool(s)>>)
    \o s.ec \o MetaBytes(s)
    \o (IF s.compressed
        THEN Words(s.base) \o Words(s.def) \o Words(s.nxt) \o Words(s.chk)
        ELSE Words(s.nxt))
    \o Words(s.acc_n) \o Words(s.acc_e)
    \o Words(<<Len(s.cond_n)>>) \o Words(s.cond_n) \o Words(s.cond_b)
    \o Words(s.trail)

VARIABLES
    job,      \* the run of lex: its number, scanner, next output and exit code
    cfile, tfile, hfile,    \* the three outputs on the disk
    prog,     \* the running program's scanner
    live,     \* its arrays
    stage,    \* of the loader: Idle, 0 at the header, then where in Sections
    source,   \* the file that is or was last loaded
    pos,      \* bytes of it read
    result,   \* of the last load: "none", "ok" or "bad"
    loads,    \* loads so far
    foreign   \* some load was of a file for another mode or set of rules

disk == <<job, cfile, tfile, hfile>>
program == <<prog, live, stage, source, pos, result, loads, foreign>>
vars == <<disk, program>>

Init == /\ job = [gen |-> 0, next |-> "done", exit |-> 1]
        /\ cfile = None /\ tfile = None /\ hfile = None
        /\ prog = None /\ live = <<>> /\ stage = Idle /\ source = None /\ pos = 0
        /\ result = "none" /\ loads = 0 /\ foreign = FALSE

(***************************************************************************)
(* The driver, run with --tables-file and --header-file.                   *)
(***************************************************************************)
Lex == /\ stage = Idle /\ job.next = "done" /\ job.gen < MaxRuns
       /\ \E s \in Scanners :
             job' = [gen |-> job.gen + 1, scanner |-> s, next |-> "scanner", exit |-> 0]
       /\ UNCHANGED <<cfile, tfile, hfile, program>>

Continue(next) == job' = [job EXCEPT !.next = next]
Fail == job' = [job EXCEPT !.next = "done", !.exit = 1]

(* The outcomes of writing a file: not opened; opened and cut off, which   *)
(* is noticed or not; or whole.                                            *)
Writing(file, whole, cutoff, next) ==
    \/ Fail /\ UNCHANGED file
    \/ file' \in cutoff /\ (Fail \/ Continue(next))
    \/ file' = whole /\ Continue(next)

Text == [gen |-> job.gen, scanner |-> job.scanner, whole |-> TRUE]
CutText == {[Text EXCEPT !.whole = FALSE]}
WriteScanner == /\ stage = Idle /\ job.next = "scanner"
                /\ Writing(cfile, Text, CutText, "tables")
                /\ UNCHANGED <<tfile, hfile, program>>

Dump == [gen |-> job.gen, scanner |-> job.scanner, bytes |-> Serialised(job.scanner)]
CutDump == {[Dump EXCEPT !.bytes = SubSeq(@, 1, n)] : n \in {k \in Cuts : k < Len(Dump.bytes)}}
WriteTablesUnnoticed ==
    /\ stage = Idle /\ job.next = "tables"
    /\ \/ Continue("header") /\ UNCHANGED tfile
       \/ Writing(tfile, Dump, CutDump, "header")
    /\ UNCHANGED <<cfile, hfile, program>>
WriteTables == /\ stage = Idle /\ job.next = "tables"
               /\ Writing(tfile, Dump, CutDump, "header")
               /\ UNCHANGED <<cfile, hfile, program>>

WriteHeader == /\ stage = Idle /\ job.next = "header"
               /\ Writing(hfile, Text, CutText, "done")
               /\ UNCHANGED <<cfile, tfile, program>>

(***************************************************************************)
(* The program, compiled from the scanner on the disk, with its loader.    *)
(***************************************************************************)
Start == /\ stage = Idle /\ cfile # None /\ cfile.whole
         /\ prog' = [gen |-> cfile.gen, scanner |-> cfile.scanner]
         /\ live' = Emitted(cfile.scanner)
         /\ source' = None /\ pos' = 0
         /\ result' = "none" /\ loads' = 0 /\ foreign' = FALSE
         /\ UNCHANGED <<disk, stage>>

Own == prog.scanner
OtherKind(file) == \/ file.scanner.compressed # Own.compressed
                   \/ Len(file.scanner.trail) # Len(Own.trail)

Bad == stage' = Idle /\ result' = "bad"

Fload == /\ stage = Idle /\ prog # None /\ loads < MaxLoads
         /\ loads' = loads + 1 /\ source' = tfile /\ pos' = 0
         /\ IF tfile = None
            THEN Bad /\ UNCHANGED foreign
            ELSE /\ stage' = 0 /\ result' = "none"
                 /\ foreign' = (foreign \/ OtherKind(tfile))
         /\ UNCHANGED <<disk, prog, live>>

Left == IF pos < Len(source.bytes) THEN Len(source.bytes) - pos ELSE 0
NameLength == WordAt(source.bytes, 8)
Field(k) == WordAt(source.bytes, 12 + NameLength + 4 * k)
HeaderEnd == 12 + NameLength + 20

HeaderRead == /\ Len(source.bytes) >= 12
              /\ WordAt(source.bytes, 0) = Signed(Magic) /\ WordAt(source.bytes, 4) = 1
              /\ Len(source.bytes) >= HeaderEnd
              /\ Field(1) = Nclasses(Own) /\ Field(2) = Nstates(Own)

Header == /\ stage = 0
          /\ IF HeaderRead
             THEN stage' = 1 /\ pos' = HeaderEnd /\ UNCHANGED result
             ELSE Bad /\ UNCHANGED pos
          /\ UNCHANGED <<disk, prog, source, live, loads, foreign>>

(* What the loader reads and compares behind the header, in its order.     *)
Sections ==
    IF Own.compressed
    THEN <<"ec", "meta", "pool", "base", "def", "nxt", "chk",
           "acc_n", "acc_e", "ncond", "cond_n", "cond_b", "trail">>
    ELSE <<"ec", "meta", "nxt", "acc_n", "acc_e", "ncond", "cond_n", "cond_b", "trail">>
InSection(names) == stage > 0 /\ Sections[stage] \in names

Section == Sections[stage]
Onward == IF stage = Len(Sections)
          THEN stage' = Idle /\ result' = "ok"
          ELSE stage' = stage + 1 /\ UNCHANGED result

(* fread(): as many bytes as there are.  The meta classes are read past    *)
(* where the program has no array for them.                                *)
ByteCount == IF Section = "ec" THEN Len(Own.ec) ELSE Nclasses(Own)
ReadBytes ==
    /\ InSection({"ec", "meta"})
    /\ LET n == IF Left < ByteCount THEN Left ELSE ByteCount
       IN /\ live' = [a \in DOMAIN live |->
                        IF a # Section THEN live[a]
                        ELSE [i \in DOMAIN live[a] |->
                                IF i <= n THEN source.bytes[pos + i] ELSE live[a][i]]]
          /\ pos' = pos + n
          /\ IF n = ByteCount THEN Onward ELSE Bad
    /\ UNCHANGED <<disk, prog, source, loads, foreign>>

(* yy_read_int_array(): whole words, until one is short.                   *)
IntsReadUnchecked(n, total) == Section = "trail" \/ n = total
IntsRead(n, total) == n = total
ReadInts ==
    /\ InSection({"base", "def", "nxt", "chk", "acc_n", "acc_e", "cond_n", "cond_b", "trail"})
    /\ LET total == Len(live[Section])
           n == IF Left \div 4 < total THEN Left \div 4 ELSE total
       IN /\ live' = [live EXCEPT ![Section] =
                        [i \in DOMAIN @ |-> IF i <= n THEN WordAt(source.bytes, pos + 4 * (i - 1))
                                            ELSE @[i]]]
          /\ pos' = pos + 4 * n
          /\ IF IntsRead(n, total) THEN Onward ELSE Bad
    /\ UNCHANGED <<disk, prog, source, loads, foreign>>

PoolUnchecked == TRUE
PoolOk == Field(4) = Pool(Own)
CheckPool == /\ InSection({"pool"})
             /\ IF PoolOk THEN Onward ELSE Bad
             /\ UNCHANGED <<disk, prog, source, live, pos, loads, foreign>>

CheckConditions ==
    /\ InSection({"ncond"})
    /\ IF Left >= 4 /\ WordAt(source.bytes, pos) = Len(Own.cond_n)
       THEN Onward /\ pos' = pos + 4
       ELSE Bad /\ UNCHANGED pos
    /\ UNCHANGED <<disk, prog, source, live, loads, foreign>>

Next == \/ Lex \/ WriteScanner \/ WriteTables \/ WriteHeader
        \/ Start \/ Fload \/ Header \/ ReadBytes \/ ReadInts \/ CheckPool \/ CheckConditions

Spec == Init /\ [][Next]_vars

(***************************************************************************)
(* Properties.                                                             *)
(***************************************************************************)
(* When lex reports success, all three files were written by this run, and *)
(* none is what an earlier run left: main() stops at every failure that it *)
(* sees.                                                                   *)
SuccessInStep ==
    job.gen > 0 /\ job.next = "done" /\ job.exit = 0 =>
        \A f \in {cfile, tfile, hfile} : f.gen = job.gen

(* A scanner accepts the file that was written with it, and finds in it    *)
(* the tables it was compiled with, whatever it had loaded before: writer  *)
(* and loader agree on order, lengths, byte order and sign.  (A scanner    *)
(* without rules is the exception: it reads one trail length, and none     *)
(* was written.)                                                           *)
OwnFileLoads ==
    /\ stage = Idle /\ source # None /\ source.scanner = Own
    /\ source.bytes = Serialised(Own) /\ Own.trail # <<>>
    => result = "ok" /\ live = Emitted(Own)

(* A load that reports success has replaced every array that a tables file *)
(* holds by that of the scanner the file was written for, so no cut-off    *)
(* file is accepted; the other arrays stay the program's.  With the file   *)
(* of another scanner, a program with REJECT or variable trailing context  *)
(* then walks the one automaton with the accept lists and boundaries of    *)
(* the other.  (The mode and the number of rules are not compared, so the  *)
(* file must agree with the program in these.)                             *)
LoadedWhole ==
    result = "ok" /\ ~OtherKind(source) =>
        \A a \in Arrays(Own) :
            live[a] = Emitted(IF a \in FileArrays(Own) THEN source.scanner ELSE Own)[a]

(* Whatever whole, cut-off or stale files of its kind a scanner loads, and *)
(* at whatever point a load fails, YY_TRANSITION reads inside the arrays   *)
(* and leads to states that exist, and every rule a state accepts has its  *)
(* trail length: mixtures of tables are harmless for memory.               *)
Index(s, b) ==
    IF Own.compressed THEN live.base[s + 1] + live.ec[b] + 1
    ELSE s * Nclasses(Own) + live.ec[b] + 1
StateOrJam == -1 .. Nstates(Own) - 1
LookupsStayInside ==
    prog # None /\ ~foreign =>
        /\ \A s \in 0 .. Nstates(Own) - 1, b \in DOMAIN live.ec :
              /\ live.ec[b] < Nclasses(Own)
              /\ Index(s, b) \in DOMAIN live.nxt
              /\ live.nxt[Index(s, b)] \in StateOrJam
        /\ \A c \in DOMAIN live.cond_n :
              {live.cond_n[c], live.cond_b[c]} \subseteq StateOrJam
        /\ \A i \in DOMAIN live.acc_n :
              {live.acc_n[i], live.acc_e[i]} \subseteq -1 .. Len(Own.trail) - 1
=============================================================================
