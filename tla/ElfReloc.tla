------------------------------ MODULE ElfReloc ------------------------------
(***************************************************************************)
(* The x86-64 ELF machines (src/modules/objfmts/elf/Elf_x86_amd64.cpp and  *)
(* Elf_x86_x32.cpp): which machine an (arch, machine, class) triple        *)
(* selects, the ELF class it configures, the special symbols (the "wrt"    *)
(* modifiers such as @plt or @got) it registers, and setRel, which gives a *)
(* relocation its final type from the value's size, its PC-relativity and *)
(* its signedness.                                                         *)
(*                                                                         *)
(* One behaviour creates one relocation: the object format selects a       *)
(* machine for the requested class (MakeReloc), the relocation starts with *)
(* the type of its special symbol, or R_X86_64_NONE without one, and then  *)
(* setRel either assigns its type or rejects the value (SetRel).           *)
(***************************************************************************)
EXTENDS Integers, FiniteSets, TLC

VARIABLES machine,   \* "amd64" or "x32": the machine ElfMatch selected
          reloc,     \* the relocation and the value it is for
          result,    \* [ok, type] once setRel ran
          phase      \* "make", "set", "done"

vars == <<machine, reloc, result, phase>>

Classes == {"NONE", "32", "64"}        \* ELFCLASSNONE, ELFCLASS32, ELFCLASS64
Machines == {"amd64", "x32"}
ValSizes == {8, 16, 32, 64, 128}       \* .byte .word .long .quad .octa
Syms == {"GOT", "foo"}                 \* _GLOBAL_OFFSET_TABLE_ or another symbol
GotSym == "GOT"
NoResult == [ok |-> FALSE, type |-> "NONE"]

\* ElfMatch_x86_amd64 / ElfMatch_x86_x32 for keyword "x86", machine "amd64":
\* amd64 takes an unspecified or 64-bit class, x32 the 32-bit class.
ElfMatchAmd64(cls) == cls \in {"NONE", "64"}
\* Faulty variant: x32 also claiming the unspecified class.
ElfMatchX32None(cls) == cls \in {"NONE", "32"}
ElfMatchX32(cls) == cls = "32"
ElfMatch(m, cls) == IF m = "amd64" THEN ElfMatchAmd64(cls) ELSE ElfMatchX32(cls)

\* Configure: the class of the object file written (x32 is ELFCLASS32 with
\* the x86-64 machine type).
ConfigureCls(m) == IF m = "amd64" THEN "64" ELSE "32"

\* AddSpecialSymbols: name -> relocation type and value size.  x32 has no
\* 64-bit special symbols (pltoff, gotplt, gotoff).
SSymsCommon ==
    [plt |-> [type |-> "PLT32", size |-> 32],
     gotpcrel |-> [type |-> "GOTPCREL", size |-> 32],
     tlsgd |-> [type |-> "TLSGD", size |-> 32],
     tlsld |-> [type |-> "TLSLD", size |-> 32],
     gottpoff |-> [type |-> "GOTTPOFF", size |-> 32],
     tpoff |-> [type |-> "TPOFF32", size |-> 32],
     dtpoff |-> [type |-> "DTPOFF32", size |-> 32],
     got |-> [type |-> "GOT32", size |-> 32],
     tlsdesc |-> [type |-> "GOTPC32_TLSDESC", size |-> 32],
     tlscall |-> [type |-> "TLSDESC_CALL", size |-> 32]]
SSymsAmd64 ==
    [pltoff |-> [type |-> "PLTOFF64", size |-> 64],
     gotplt |-> [type |-> "GOTPLT64", size |-> 64],
     gotoff |-> [type |-> "GOTOFF64", size |-> 64]] @@ SSymsCommon
AddSpecialSymbols(m) == IF m = "amd64" THEN SSymsAmd64 ELSE SSymsCommon

\* The non-rel, non-GOT cases shared by both setRel: the absolute types.
AbsType(valsize, sign) ==
    CASE valsize = 8  -> "8"
      [] valsize = 16 -> "16"
      [] valsize = 32 -> IF sign THEN "32S" ELSE "32"
      [] valsize = 64 -> "64"
      [] OTHER        -> "reject"

\* Faulty variant: 64-bit PC-relative values accepted as PC32.
PCTypeAmd64Wide(valsize) ==
    CASE valsize = 8 -> "PC8" [] valsize = 16 -> "PC16"
      [] valsize \in {32, 64} -> "PC32" [] OTHER -> "reject"
PCTypeAmd64(valsize) ==
    CASE valsize = 8 -> "PC8" [] valsize = 16 -> "PC16"
      [] valsize = 32 -> "PC32" [] valsize = 64 -> "PC64" [] OTHER -> "reject"
PCTypeX32(valsize) ==
    CASE valsize = 8 -> "PC8" [] valsize = 16 -> "PC16"
      [] valsize = 32 -> "PC32" [] OTHER -> "reject"

\* Faulty variant: a switch default that falls through instead of
\* returning false.
SetNoReject(t) == [ok |-> TRUE, type |-> t]
\* Result of setRel: the new m_type, or rejection.
Set(t) == IF t = "reject" THEN NoResult ELSE [ok |-> TRUE, type |-> t]

\* ElfReloc_x86_amd64::setRel, in the order of its if/else chain.
SetRelAmd64(r) ==
    IF r.rel /\ r.type = "GOT32" THEN Set("GOTPCREL")
    ELSE IF r.sym = GotSym /\ r.valsize = 32 THEN Set("GOTPC32")
    ELSE IF r.sym = GotSym /\ r.valsize = 64 THEN Set("GOTPC64")
    ELSE IF r.rel THEN Set(PCTypeAmd64(r.valsize))
    ELSE Set(AbsType(r.valsize, r.sign))

\* Faulty variant: the GOT-symbol test without its size check.
SetRelX32AnyGot(r) ==
    IF r.rel /\ r.type = "GOT32" THEN Set("GOTPCREL")
    ELSE IF r.sym = GotSym THEN Set("GOTPC32")
    ELSE IF r.rel THEN Set(PCTypeX32(r.valsize))
    ELSE Set(AbsType(r.valsize, r.sign))
\* ElfReloc_x86_x32::setRel: as amd64, but the 64-bit GOTPC64 and PC64 are
\* refused.
SetRelX32(r) ==
    IF r.rel /\ r.type = "GOT32" THEN Set("GOTPCREL")
    ELSE IF r.sym = GotSym /\ r.valsize = 32 THEN Set("GOTPC32")
    ELSE IF r.sym = GotSym /\ r.valsize = 64 THEN NoResult
    ELSE IF r.rel THEN Set(PCTypeX32(r.valsize))
    ELSE Set(AbsType(r.valsize, r.sign))

SetRel(m, r) == IF m = "amd64" THEN SetRelAmd64(r) ELSE SetRelX32(r)

Init ==
    /\ machine = "amd64"
    /\ reloc = [sym |-> "foo", type |-> "NONE", wrt |-> "none",
                rel |-> FALSE, valsize |-> 8, sign |-> FALSE]
    /\ result = NoResult
    /\ phase = "make"

\* The object format picks the machine ElfMatch accepts for the class and
\* makes a relocation (MakeReloc) against sym, typed by its wrt modifier.
MakeReloc ==
    /\ phase = "make"
    /\ \E cls \in Classes, m \in Machines, s \in Syms,
          rel \in BOOLEAN, vs \in ValSizes, sign \in BOOLEAN :
          LET ss == AddSpecialSymbols(m) IN
          /\ ElfMatch(m, cls)
          /\ \E w \in DOMAIN ss \cup {"none"} :
               /\ machine' = m
               /\ reloc' = [sym |-> s, wrt |-> w, rel |-> rel, valsize |-> vs,
                            sign |-> sign,
                            type |-> IF w = "none" THEN "NONE" ELSE ss[w].type]
    /\ phase' = "set"
    /\ UNCHANGED result

SetRelStep ==
    /\ phase = "set"
    /\ result' = SetRel(machine, reloc)
    /\ phase' = "done"
    /\ UNCHANGED <<machine, reloc>>

Next == MakeReloc \/ SetRelStep

Spec == Init /\ [][Next]_vars

-----------------------------------------------------------------------------
(* Properties.                                                             *)

Types == {"NONE", "8", "16", "32", "32S", "64", "PC8", "PC16", "PC32",
          "PC64", "GOTPC32", "GOTPC64", "GOTPCREL"}
          \cup {SSymsAmd64[n].type : n \in DOMAIN SSymsAmd64}

TypeOK ==
    /\ machine \in Machines
    /\ reloc.sym \in Syms /\ reloc.type \in Types
    /\ reloc.rel \in BOOLEAN /\ reloc.sign \in BOOLEAN
    /\ reloc.valsize \in ValSizes
    /\ result \in [ok : BOOLEAN, type : Types]
    /\ phase \in {"make", "set", "done"}

\* Width in bits, and PC-relativity, of the types setRel assigns.
Width == [t \in {"8", "PC8"} |-> 8] @@ [t \in {"16", "PC16"} |-> 16]
         @@ [t \in {"32", "32S", "PC32", "GOTPC32", "GOTPCREL"} |-> 32]
         @@ [t \in {"64", "PC64", "GOTPC64"} |-> 64]
PCRel == {"PC8", "PC16", "PC32", "PC64", "GOTPC32", "GOTPC64", "GOTPCREL"}

\* Machine selection (ElfMatch_x86_amd64 and ElfMatch_x86_x32 against the
\* two Configure methods): no class selects both machines, and the machine
\* selected writes the class that was asked for.
MachineSelectionConsistent ==
    phase # "make" =>
      \A cls \in Classes :
         /\ ~(ElfMatchAmd64(cls) /\ ElfMatchX32(cls))
         /\ ElfMatch(machine, cls) => cls \in {"NONE", ConfigureCls(machine)}

\* A plain relocation (no wrt modifier) that setRel accepts gets a type as
\* wide as the value, and a PC-relative type exactly when the value is
\* IP-relative or is a 32- or 64-bit reference to _GLOBAL_OFFSET_TABLE_
\* (GOTPC32/GOTPC64, taken relative to the place whatever the value's own
\* relativity; narrower references to it are ordinary ones).
AcceptedTypeFitsValue ==
    phase = "done" /\ result.ok /\ reloc.wrt = "none" =>
      /\ result.type \in DOMAIN Width
      /\ Width[result.type] = reloc.valsize
      /\ (result.type \in PCRel <=>
            reloc.rel \/ (reloc.sym = GotSym /\ reloc.valsize \in {32, 64}))

\* ElfReloc_x86_x32::setRel is the amd64 mapping restricted to 32-bit
\* addressing: where x32 accepts it gives amd64's type, and it refuses
\* exactly the values amd64 would give a 64-bit PC-relative type.
X32RestrictsAmd64 ==
    phase = "done" /\ machine = "x32" =>
      LET a == SetRelAmd64(reloc) IN
      IF result.ok THEN a = result
      ELSE ~a.ok \/ a.type \in {"PC64", "GOTPC64"}
=============================================================================
