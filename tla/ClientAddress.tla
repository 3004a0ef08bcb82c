--------------------------- MODULE ClientAddress ---------------------------
(***************************************************************************)
(* How a request's client address is derived: internal/ip (the walk over   *)
(* X-Forwarded-For, the depth and pool strategies, Checker, Subnet).       *)
(*                                                                         *)
(* A text is what a header or RemoteAddr holds: how it is spelled, the     *)
(* address it spells, and what follows the address.  Two spellings are     *)
(* parsed by net.ParseIP: "plain", the one IP.String prints, and "alias",  *)
(* any other (upper case, uncompressed, IPv4 mapped into IPv6).  "zoned"   *)
(* carries an IPv6 zone, which netip.ParseAddr takes and net.ParseIP does  *)
(* not.  "junk" is no address.                                             *)
(***************************************************************************)
EXTENDS Integers, Sequences

CONSTANT MaxXFFEntries    \* maxXFFEntries: 32 in the code

ASSUME EntriesAssumption == MaxXFFEntries \in Nat \ {0}

\* An address is four groups of bits.  Where each of them ends: the prefix
\* lengths at which networks can be told apart.
Ends == [v4 |-> <<8, 16, 24, 32>>, v6 |-> <<32, 48, 64, 128>>]

Zero == [fam |-> "v6", part |-> <<0, 0, 0, 0>>]

Addresses == [fam : {"v4", "v6"}, part : [1 .. 4 -> Nat]]

\* The texts that arrive in requests.
Texts == [spell : {"plain", "alias", "zoned", "junk", "blank"},
          addr : Addresses, suffix : {<<>>, <<":port">>}]

Text(spell, addr) == [spell |-> spell, addr |-> addr, suffix |-> <<>>]
WithPort(text) == [text EXCEPT !.suffix = <<":port">>]
Slash(text, bits) == [text EXCEPT !.suffix = <<"/", bits>>]

\* The empty string: also an absent header.
Blank == Text("blank", Zero)

-----------------------------------------------------------------------------
(* Parsing. *)

\* net.ParseIP gives an address.
ParsesIP(text) == text.spell \in {"plain", "alias"} /\ text.suffix = <<>>

\* netip.ParseAddr gives an address.
ParsesAddr(text) == text.spell \in {"plain", "alias", "zoned"} /\ text.suffix = <<>>

\* The host of net.SplitHostPort, or the text itself if that fails.
HostOf(text) == IF text.suffix = <<":port">> THEN [text EXCEPT !.suffix = <<>>] ELSE text

\* normaliseEntry, when it succeeds: ports and brackets go, spelling stays.
NormaliseEntry(entry) == HostOf(entry)
Normalises(entry) == ParsesIP(NormaliseEntry(entry))

\* IP.Mask with net.CIDRMask.
Masked(addr, bits) ==
    [addr EXCEPT !.part = [i \in 1 .. 4 |-> IF Ends[addr.fam][i] <= bits THEN @[i] ELSE 0]]

-----------------------------------------------------------------------------
(* Checker.  A rule is an address or a CIDR: the address and its prefix    *)
(* length; BadRule is one that neither ParseIP nor ParseCIDR takes.        *)

Rules == [addr : Addresses, bits : Int]
Rule(addr, bits) == [addr |-> Masked(addr, bits), bits |-> bits]
BadRule == [addr |-> Zero, bits |-> -1]

\* NewChecker succeeds.
CheckerBuilds(rules) == rules # {} /\ BadRule \notin rules

\* Contains.  Each caller takes an error (an empty or unparsable text) for "not
\* contained".  Both families are compared in their 16-byte form.
Contains(rules, text) ==
    /\ ParsesAddr(text)
    /\ \E rule \in rules : /\ rule.addr.fam = text.addr.fam
                           /\ Masked(text.addr, rule.bits) = rule.addr

-----------------------------------------------------------------------------
(* The strategies.  xff is the first X-Forwarded-For line, split at commas *)
(* and trimmed; an absent or blank line is <<Blank>>.                      *)

Derived(ip, source) == [ip |-> ip, source |-> source]
NoSource == "none"

\* An entry that the walk passes over: one of ours.
Ours(rules, entry) == Normalises(entry) /\ Contains(rules, NormaliseEntry(entry))

\* The loop of Resolve, from the right, leaves at entry i.
WalkStopsAt(rules, xff, i) ==
    /\ i \in 1 .. Len(xff)
    /\ ~Ours(rules, xff[i])
    /\ \A j \in (i + 1) .. Len(xff) : Ours(rules, xff[j])

\* A walk that skips what it cannot parse.
ExitSkipping(rules, peer, xff) ==
    LET good == {i \in 1 .. Len(xff) : Normalises(xff[i]) /\ ~Ours(rules, xff[i])}
    IN  IF good = {} THEN Derived(peer, "peer-all-trusted")
        ELSE Derived(NormaliseEntry(xff[CHOOSE i \in good : \A j \in good : j <= i]), "xff")

\* A loop that returns whatever it stopped at.
ExitUnchecked(rules, peer, xff) ==
    IF \E i \in 1 .. Len(xff) : WalkStopsAt(rules, xff, i)
    THEN Derived(NormaliseEntry(xff[CHOOSE i \in 1 .. Len(xff) : WalkStopsAt(rules, xff, i)]),
                 "xff")
    ELSE Derived(peer, "peer-all-trusted")

\* What the loop returns: the entry, if it is an address at all.
Exit(rules, peer, xff) ==
    IF \E i \in 1 .. Len(xff) : WalkStopsAt(rules, xff, i)
    THEN LET entry == xff[CHOOSE i \in 1 .. Len(xff) : WalkStopsAt(rules, xff, i)]
         IN  IF Normalises(entry) THEN Derived(NormaliseEntry(entry), "xff")
             ELSE Derived(peer, "peer-malformed")
    ELSE Derived(peer, "peer-all-trusted")

\* A walk that reads the header whoever sent it.
ResolveUnanchored(rules, remote, xff) ==
    IF xff = <<Blank>> THEN Derived(HostOf(remote), "peer-no-xff")
    ELSE Exit(rules, HostOf(remote), xff)

\* TrustedProxyStrategy.Resolve.
Resolve(rules, remote, xff) ==
    LET peer == HostOf(remote)
    IN  IF ~Contains(rules, peer) THEN Derived(peer, "peer-untrusted")
        ELSE IF xff = <<Blank>> THEN Derived(peer, "peer-no-xff")
        ELSE IF Len(xff) > MaxXFFEntries THEN Derived(peer, "peer-malformed")
        ELSE Exit(rules, peer, xff)

\* DepthStrategy.GetIP: the entry as it stands.
Depth(depth, xff) == IF Len(xff) < depth THEN Blank ELSE xff[Len(xff) - depth + 1]

\* PoolStrategy.GetIP: the last entry that is neither empty nor in the pool.
PoolStopsAt(rules, xff, i) ==
    LET passed(j) == xff[j] = Blank \/ Contains(rules, xff[j])
    IN  ~passed(i) /\ \A j \in (i + 1) .. Len(xff) : passed(j)

Pool(rules, xff) ==
    IF \E i \in 1 .. Len(xff) : PoolStopsAt(rules, xff, i)
    THEN xff[CHOOSE i \in 1 .. Len(xff) : PoolStopsAt(rules, xff, i)]
    ELSE Blank

\* GetIP of a strategy, with its source where the strategy is a Resolver.
Derive(strategy, remote, xff) ==
    CASE strategy.kind = "walk"   -> Resolve(strategy.rules, remote, xff)
      [] strategy.kind = "depth"  -> Derived(Depth(strategy.depth, xff), NoSource)
      [] strategy.kind = "pool"   -> Derived(Pool(strategy.rules, xff), NoSource)
      [] strategy.kind = "remote" -> Derived(HostOf(remote), NoSource)

-----------------------------------------------------------------------------
(* Aggregation. *)

\* A Subnet that leaves the configured prefix aside.
SubnetAlways64(text, bits) ==
    IF ParsesIP(text) /\ text.addr.fam = "v6" THEN Text("plain", Masked(text.addr, 64))
    ELSE text

\* Subnet: the network of an IPv6 address, as IP.String prints it; any other
\* text stays as it is.
Subnet(text, bits) ==
    IF ParsesIP(text) /\ text.addr.fam = "v6" THEN Text("plain", Masked(text.addr, bits))
    ELSE text

\* SubnetCIDR: the same with a prefix length.
SubnetCIDR(text, bits) ==
    IF ~ParsesIP(text) THEN text
    ELSE IF text.addr.fam = "v4" THEN Slash(text, 32)
    ELSE Slash(Text("plain", Masked(text.addr, bits)), bits)
=============================================================================
