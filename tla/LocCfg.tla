------------------------------- MODULE LocCfg -------------------------------
(***************************************************************************)
(* utils/loc_cfg.cpp: the reader of gps.conf and sap.conf.  A table names  *)
(* the parameters, their types and where they are kept; a file, or a text  *)
(* the framework hands over, gives some of them values, one per line.      *)
(* Reading stops once as many values have been taken as the table has      *)
(* entries.  The level of the log is read from the same file afterwards.   *)
(***************************************************************************)
EXTENDS Naturals, Sequences, FiniteSets

CONSTANTS config_table,    \* param_name and param_type of each parameter, and whether it
                           \* has a flag (param_set is not NULL); the names differ
          loc_param_table, \* the parameters of the log
          Line,            \* a line: its param_name and, if it has two operands, its value
          MaxLines,        \* bound: lines of a file
          MaxReads         \* bound: files and texts read

\* A value: its text, and the number it stands for, written in hex or not.

Tables == config_table \o loc_param_table
Entry  == [param_name : STRING, param_type : {"s", "n", "f"}, flag : BOOLEAN]

\* No two entries have the same name, those of the log included.
ASSUME CfgAssumption ==
  /\ config_table \in Seq(Entry) /\ loc_param_table \in Seq(Entry)
  /\ \A i, j \in DOMAIN Tables : Tables[i].param_name = Tables[j].param_name => i = j
  /\ MaxLines \in Nat /\ MaxReads \in Nat

VARIABLES
  param,      \* what each parameter is set to
  param_set,  \* the parameters whose flag is set
  read,       \* the last call: which it was, its text and what it returned
  before,     \* ghost: param and param_set when the last call began
  reads       \* calls made

cfgVars == <<param, param_set, read, before, reads>>

NamesOf(table) == {table[i].param_name : i \in DOMAIN table}
FlagsOf(table) == {table[i].param_name : i \in {j \in DOMAIN table : table[j].flag}}
ConfTexts == UNION {[1..n -> Line] : n \in 0..MaxLines}
TypeOf(n) == (CHOOSE e \in {Tables[i] : i \in DOMAIN Tables} : e.param_name = n).param_type
Default(type) == IF type = "s" THEN "" ELSE 0

CfgInit ==
  /\ param = [n \in NamesOf(Tables) |-> Default(TypeOf(n))]
  /\ param_set = {}
  /\ read = [call |-> "none", text |-> <<>>, ret |-> 0]
  /\ before = [param |-> param, param_set |-> {}]
  /\ reads = 0

\* What a value is for a parameter of the type: hex digits are no double.
Parsed(value, type) ==
  CASE type = "s" -> IF value.text = "NULL" THEN "" ELSE value.text
    [] type = "n" -> value.number
    [] type = "f" -> IF value.hex THEN 0 ELSE value.number

\* The entries of the table that the line sets.
loc_set_config_entry(table, line) ==
  {i \in DOMAIN table : /\ table[i].param_name = line.param_name
                        /\ line.value # {}
                        /\ table[i].param_type \in {"s", "n", "f"}}

Operand(value) == CHOOSE v \in value : TRUE

\* Mutant: every line read counts, not only those that set a parameter.
FillCountsLines(table, line, r) ==
  LET hits == loc_set_config_entry(table, line)
  IN IF r.num_params = 0 THEN r
     ELSE [param |-> [n \in DOMAIN r.param |->
                        IF \E i \in hits : table[i].param_name = n
                        THEN Parsed(Operand(line.value), table[CHOOSE i \in hits : TRUE].param_type)
                        ELSE r.param[n]],
           param_set |-> r.param_set \cup {table[i].param_name : i \in {j \in hits : table[j].flag}},
           num_params |-> r.num_params - 1,
           ret |-> r.ret + 1]

\* One line against the table: the parameters, the flags, the number still to come.
loc_fill_conf_item(table, line, r) ==
  LET hits == loc_set_config_entry(table, line)
  IN IF r.num_params = 0 THEN r
     ELSE [param |-> [n \in DOMAIN r.param |->
                        IF \E i \in hits : table[i].param_name = n
                        THEN Parsed(Operand(line.value), table[CHOOSE i \in hits : TRUE].param_type)
                        ELSE r.param[n]],
           param_set |-> r.param_set \cup {table[i].param_name : i \in {j \in hits : table[j].flag}},
           num_params |-> r.num_params - Cardinality(hits),
           ret |-> r.ret + 1]

\* The text against the table, line by line.
Fill(table, text, r) ==
  LET after[n \in 0..Len(text)] ==
        IF n = 0 THEN r ELSE loc_fill_conf_item(table, text[n], after[n - 1])
  IN after[Len(text)]

\* All flags of the table are cleared before the first line.
loc_read_conf_r(table, text, r) ==
  Fill(table, text, [param |-> r.param, param_set |-> r.param_set \ FlagsOf(table),
                     num_params |-> Len(table), ret |-> 0])

ReadText(call, text, r) ==
  /\ reads < MaxReads /\ reads' = reads + 1
  /\ param' = r.param /\ param_set' = r.param_set
  /\ read' = [call |-> call, text |-> text, ret |-> r.ret]
  /\ before' = [param |-> param, param_set |-> param_set]

\* The file is read for the table, and from its start again for the log.
loc_read_conf(text) ==
  LET own == loc_read_conf_r(config_table, text, [param |-> param, param_set |-> param_set])
  IN ReadText("read", text, loc_read_conf_r(loc_param_table, text, own))

\* A text of the framework: no flag is cleared, and one record fewer is taken.
loc_update_conf(text) ==
  /\ text # <<>> /\ config_table # <<>>
  /\ ReadText("update", text,
              Fill(config_table, text, [param |-> param, param_set |-> param_set,
                                        num_params |-> Len(config_table) - 1, ret |-> 0]))

CfgNext == \E text \in ConfTexts : loc_read_conf(text) \/ loc_update_conf(text)

CfgSpec == CfgInit /\ [][CfgNext]_cfgVars

-----------------------------------------------------------------------------
CfgTypeOK ==
  /\ DOMAIN param = NamesOf(Tables) /\ param_set \subseteq NamesOf(Tables)
  /\ read.call \in {"none", "read", "update"} /\ read.ret \in 0..MaxLines
  /\ reads \in 0..MaxReads

\* The lines that give a parameter of the table a value; the first of them are
\* taken, as many as the call takes; those of one parameter.
Gives(text, table) ==
  {i \in DOMAIN text : text[i].param_name \in NamesOf(table) /\ text[i].value # {}}
Taken(text, table, most) ==
  {i \in Gives(text, table) : Cardinality({j \in Gives(text, table) : j < i}) < most}
LinesOf(text, table, most, n) == {i \in Taken(text, table, most) : text[i].param_name = n}

Latest(lines) == CHOOSE i \in lines : \A j \in lines : j <= i

\* What these lines make of a parameter that was old.
Written(text, lines, n, old) ==
  IF lines = {} THEN old ELSE Parsed(Operand(text[Latest(lines)].value), TypeOf(n))

\* Every parameter of the table is what its last line says, or what it was.
AsWritten(table, most) ==
  \A n \in NamesOf(table) :
    param[n] = Written(read.text, LinesOf(read.text, table, most, n), n, before.param[n])

(* A parameter ends up with the value of its last line, whatever stands    *)
(* around it: lines without a value, other names, parameters of the other  *)
(* table.  Only the first lines that give a value count: as many as the    *)
(* table has entries in a file, one fewer in a text of the framework, so   *)
(* that a file that repeats parameters, or a text that gives them all, is  *)
(* not read to its end.  A parameter no such line names keeps its value;   *)
(* a flag says whether the last file, or a text since, set its parameter.  *)
ConfRead ==
  /\ read.call = "read" =>
       \A table \in {config_table, loc_param_table} :
         /\ AsWritten(table, Len(table))
         /\ \A n \in FlagsOf(table) : n \in param_set <=> LinesOf(read.text, table, Len(table), n) # {}
  /\ read.call = "update" =>
       /\ AsWritten(config_table, Len(config_table) - 1)
       /\ \A n \in FlagsOf(config_table) :
            n \in param_set <=> \/ n \in before.param_set
                                \/ LinesOf(read.text, config_table, Len(config_table) - 1, n) # {}
       /\ \A n \in NamesOf(loc_param_table) : param[n] = before.param[n]
=============================================================================
