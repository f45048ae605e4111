----------------------------- MODULE Interface -----------------------------
(***************************************************************************)
(* What a call is between a client and a program: the client's builder     *)
(* lists accounts with their privileges, fills in the addresses its caller *)
(* left out and encodes the arguments in order; the program binds accounts *)
(* and arguments by position and checks them.  The tables of builders and  *)
(* of programs are modules DuelInterface and RpsInterface.                 *)
(*                                                                         *)
(* An address is a key, or what a program and seeds derive.  Derivation is *)
(* injective: hashes and bumps are left out.                               *)
(***************************************************************************)
EXTENDS Naturals, Sequences

Key(name) == <<name>>

Pda(program, seeds) == <<program, seeds>>

SystemProgram     == Key("11111111")
DelegationProgram == Key("DELeGG")
PermissionProgram == Key("ACLseo")
MagicProgram      == Key("Magic")
MagicContext      == Key("MagicContext")

-----------------------------------------------------------------------------
(* How tables describe accounts, and where an address has to come from.     *)

Described(name, writable, signer) ==
  [name |-> name, writable |-> writable, signer |-> signer,
   holds |-> "anything", new |-> FALSE]

R(name)  == Described(name, FALSE, FALSE)
W(name)  == Described(name, TRUE, FALSE)
S(name)  == Described(name, FALSE, TRUE)
WS(name) == Described(name, TRUE, TRUE)

(* Account<'info, T>, and the same with init. *)
Holding(account, type) == [account EXCEPT !.holds = type]
New(account, type) == [account EXCEPT !.holds = type, !.new = TRUE]

Self == Key("self")   \* in a rule: the program that is called
Fixed(address) == [address |-> address]
Derived(program, seeds) == [program |-> program, seeds |-> seeds]

Text(text)         == <<"text", text>>
Of(account)        == <<"account", account>>
Arg(name)          == <<"arg", name>>
Field(account, of) == <<"field", account, of>>

(* chain holds the accounts there are; a client's rules never look at it.   *)
Seed(seed, accounts, args, chain) ==
  CASE seed[1] = "text"    -> Key(seed[2])
    [] seed[1] = "account" -> accounts[seed[2]]
    [] seed[1] = "arg"     -> args[seed[2]]
    [] seed[1] = "field"   -> chain[accounts[seed[2]]].data[seed[3]]

Program(address, self) == IF address = Self THEN self ELSE address

AddressBy(rule, self, accounts, args, chain) ==
  IF "address" \in DOMAIN rule
  THEN Program(rule.address, self)
  ELSE Pda(Program(rule.program, self),
           [k \in DOMAIN rule.seeds |-> Seed(rule.seeds[k], accounts, args, chain)])

-----------------------------------------------------------------------------
(* The client's side.  A builder has a name, the program it was generated   *)
(* for, accounts, defaults for addresses, and the order of its arguments.   *)

Builder(name, home, accounts, defaults, args) ==
  [name |-> name, home |-> home, accounts |-> accounts,
   defaults |-> defaults, args |-> args]

(* An optional account that is left out is the program itself.              *)
Resolved(b, self, given, args, name) ==
  CASE name \in DOMAIN given -> given[name]
    [] name \in DOMAIN b.defaults \ DOMAIN given ->
         AddressBy(b.defaults[name], self, given, args, <<>>)
    [] OTHER -> self

(* One variant of an enum: its name and its fields in order.                *)
Encodable(variants, value) ==
  \A k \in DOMAIN variants[value.kind] :
    variants[value.kind][k] \in DOMAIN value.fields

EncodedKind(variants, value) ==
  <<value.kind, [k \in DOMAIN variants[value.kind] |->
                   value.fields[variants[value.kind][k]]]>>

Build(b, self, given, args, remaining) ==
  [program |-> self,
   name |-> b.name,
   accounts |->
     [k \in DOMAIN b.accounts |->
        [address |-> Resolved(b, self, given, args, b.accounts[k].name),
         writable |-> b.accounts[k].writable,
         signer |-> b.accounts[k].signer]] \o remaining,
   args |-> [k \in DOMAIN b.args |-> args[b.args[k]]]]

(* What a client reads in an instruction somebody sent: an optional account *)
(* counts as left out if it is the address the client was generated for.    *)
Parsed(b, optional, ins) ==
  LET names == {b.accounts[k].name : k \in DOMAIN b.accounts}
      at(n) == CHOOSE k \in DOMAIN b.accounts : b.accounts[k].name = n
      there == {n \in names :
                  n \in optional => ins.accounts[at(n)].address # b.home}
  IN [accounts |-> [n \in there |-> ins.accounts[at(n)].address],
      args |-> [n \in {b.args[k] : k \in DOMAIN b.args} |->
                  ins.args[CHOOSE k \in DOMAIN b.args : b.args[k] = n]]]

-----------------------------------------------------------------------------
(* The program's side.  A handler has accounts, rules for some of their     *)
(* addresses, arguments, and fields that must equal an account's address.   *)

Handler(accounts, rules, args, equal) ==
  [accounts |-> accounts, rules |-> rules, args |-> args, equal |-> equal]

Bound(h, ins) ==
  [n \in {h.accounts[k].name : k \in DOMAIN h.accounts} |->
     ins.accounts[CHOOSE k \in DOMAIN h.accounts : h.accounts[k].name = n].address]

Args(h, ins) ==
  [n \in {h.args[k] : k \in DOMAIN h.args} |->
     ins.args[CHOOSE k \in DOMAIN h.args : h.args[k] = n]]

HasFields(rule, accounts, chain) ==
  "seeds" \in DOMAIN rule =>
    \A k \in DOMAIN rule.seeds :
      rule.seeds[k][1] = "field" => accounts[rule.seeds[k][2]] \in DOMAIN chain

(* The call itself is wrong: too few accounts, a privilege that was not     *)
(* asked for, an address other than the one the program derives.            *)
FewAccounts(h, ins) == Len(ins.accounts) < Len(h.accounts)

Unprivileged(h, ins) ==
  \E k \in DOMAIN h.accounts :
    \/ h.accounts[k].writable /\ ~ ins.accounts[k].writable
    \/ h.accounts[k].signer /\ ~ ins.accounts[k].signer

Misaddressed(h, ins, chain) ==
  LET accounts == Bound(h, ins) IN
  \E n \in DOMAIN h.rules :
    /\ HasFields(h.rules[n], accounts, chain)
    /\ accounts[n] # AddressBy(h.rules[n], ins.program, accounts, Args(h, ins), chain)

(* The call comes at the wrong time: an account is not there, or not on     *)
(* this layer, or already there, or belongs to something else.  In the TEE  *)
(* an account that is only read may be the copy of one on L1.               *)
Present(account, address, layer, chain) ==
  /\ address \in DOMAIN chain
  /\ chain[address].type = account.holds
  /\ chain[address].layer = layer \/ (layer = "TEE" /\ ~ account.writable)

Untimely(h, ins, layer, chain) ==
  LET accounts == Bound(h, ins) IN
  \/ \E k \in DOMAIN h.accounts :
       LET account == h.accounts[k]
           address == accounts[account.name]
       IN IF account.new
          THEN address \in DOMAIN chain \/ layer = "TEE"
          ELSE account.holds # "anything" /\ ~ Present(account, address, layer, chain)
  \/ \E e \in h.equal :
       /\ accounts[e[1]] \in DOMAIN chain
       /\ chain[accounts[e[1]]].data[e[2]] # accounts[e[3]]
-----------------------------------------------------------------------------
(* What both interfaces share. *)

System(rules) ==
  [n \in DOMAIN rules \cup {"systemProgram"} |->
     IF n = "systemProgram" THEN Fixed(SystemProgram) ELSE rules[n]]

(* What the attribute delegate makes of pda, payer and validator.           *)
Delegation ==
  Handler(<<W("bufferPda"), W("delegationRecordPda"), W("delegationMetadataPda"),
            W("pda"), WS("payer"), R("validator"), R("ownerProgram"),
            R("delegationProgram"), R("systemProgram")>>,
          System([bufferPda |-> Derived(Self, <<Text("buffer"), Of("pda")>>),
                  delegationRecordPda |->
                    Derived(DelegationProgram, <<Text("delegation"), Of("pda")>>),
                  delegationMetadataPda |->
                    Derived(DelegationProgram, <<Text("delegation-metadata"), Of("pda")>>),
                  ownerProgram |-> Fixed(Self),
                  delegationProgram |-> Fixed(DelegationProgram)]),
          <<"accountType">>, {})

SystemDefault == Fixed(SystemProgram)

(* The owner, and the program the buffer is derived under, are constants of *)
(* the generated file whatever program is called.                           *)
DelegationDefaults(owner) ==
  [bufferPda |-> Derived(owner, <<Text("buffer"), Of("pda")>>),
   delegationRecordPda |-> Derived(DelegationProgram, <<Text("delegation"), Of("pda")>>),
   delegationMetadataPda |->
     Derived(DelegationProgram, <<Text("delegation-metadata"), Of("pda")>>),
   ownerProgram |-> Fixed(owner),
   delegationProgram |-> Fixed(DelegationProgram),
   systemProgram |-> SystemDefault]

DelegationAccounts ==
  <<W("bufferPda"), W("delegationRecordPda"), W("delegationMetadataPda"), W("pda"),
    WS("payer"), R("validator"), R("ownerProgram"), R("delegationProgram"),
    R("systemProgram")>>
=============================================================================
