------------------------------- MODULE Crypto -------------------------------
(***************************************************************************)
(* src/src/io/crypto.ts.  What the Web Crypto API computes is symbolic: a  *)
(* ciphertext, a signature or a shared secret is a record of all it was    *)
(* made from, and each is read only with what it was made from.  What the  *)
(* module does is to choose algorithms, parameters and usages, and to make *)
(* an Err of whatever the API throws.  All keys of a behaviour are of one  *)
(* algorithm, and one more key wraps them.                                 *)
(***************************************************************************)
EXTENDS Integers, FiniteSets

CONSTANTS
  MaxPairs,   \* bound on the keys, or key pairs, generated
  MaxUses,    \* bound on the calls that use a key
  ByteSize,   \* values of a byte
  MaxRange,   \* bound on max - min of randomInt
  ExactBelow  \* numbers up to it are exact: 2^53, where ByteSize is 256

ASSUME CryptoAssumption ==
  /\ {MaxPairs, MaxUses, MaxRange, ExactBelow} \subseteq Nat
  /\ ByteSize \in Nat \ {0, 1}

VARIABLES
  algorithm,  \* of the keys
  keyRing,    \* the keys at hand
  exported,   \* what keys were exported as
  wrapped,    \* what keys were wrapped as
  sealed,     \* what encrypt returned, with the text it was given
  signed,     \* what sign returned, with the text
  pairs, uses, \* how many keys were generated, and how often keys were used
  drawn       \* initialization vectors drawn so far

cryptoVars == <<algorithm, keyRing, exported, wrapped, sealed, signed, pairs, uses, drawn>>

Symmetric == {"HMAC", "AES-GCM", "AES-CBC"}
Algorithms == Symmetric \cup {"ECDSA", "RSA-PSS", "RSA-OAEP", "ECDH"}
Plaintexts == {"t1", "t2"}

-----------------------------------------------------------------------------
(* The Web Crypto API. *)

Key(part, id, usages, extractable) ==
  [algorithm |-> algorithm, part |-> part, id |-> id, usages |-> usages, extractable |-> extractable]

PartsOf == IF algorithm \in Symmetric THEN {"secret"} ELSE {"public", "private"}

\* What a key can be used for at most.
Allowed(part) ==
  CASE algorithm = "HMAC" -> {"sign", "verify"}
    [] algorithm \in {"AES-GCM", "AES-CBC"} -> {"encrypt", "decrypt", "wrapKey", "unwrapKey"}
    [] algorithm \in {"ECDSA", "RSA-PSS"} -> IF part = "public" THEN {"verify"} ELSE {"sign"}
    [] algorithm = "RSA-OAEP" -> IF part = "public" THEN {"encrypt", "wrapKey"} ELSE {"decrypt", "unwrapKey"}
    [] algorithm = "ECDH" -> IF part = "public" THEN {} ELSE {"deriveKey", "deriveBits"}

\* The formats a key has.
FormatsOf(part) ==
  {"jwk"} \cup CASE part = "secret" -> {"raw"} [] part = "private" -> {"pkcs8"}
                 [] OTHER -> IF algorithm \in {"ECDSA", "ECDH"} THEN {"raw", "spki"} ELSE {"spki"}

SubtleGenerate(id, extractable, usages) ==
  {Key(part, id, usages \cap Allowed(part), part = "public" \/ extractable) : part \in PartsOf}

\* Usages a key cannot have, and none at all for one that is not public, are refused.
SubtleImport(format, material, extractable, usages) ==
  IF format = material.format /\ usages \subseteq Allowed(material.part) /\ (usages # {} \/ material.part = "public")
  THEN {Key(material.part, material.id, usages, material.part = "public" \/ extractable)} ELSE {}

SubtleExport(format, key) ==
  IF key.extractable /\ format \in FormatsOf(key.part)
  THEN {[format |-> format, part |-> key.part, id |-> key.id]} ELSE {}

\* One that names another algorithm than the key's, or a use the key has not, is refused.
Usable(params, key, usage) == params.name = key.algorithm /\ usage \in key.usages

SubtleEncrypt(params, key, text) ==
  IF Usable(params, key, "encrypt") THEN {[params |-> params, id |-> key.id, text |-> text]} ELSE {}

\* What is not authenticated decrypts to something under other parameters.
SubtleDecrypt(params, key, data) ==
  IF ~Usable(params, key, "decrypt") THEN {}
  ELSE IF data.params = params /\ data.id = key.id THEN {data.text}
  ELSE IF params.name = "AES-CBC" THEN {"garbled"} ELSE {}

SubtleSign(params, key, text) ==
  IF Usable(params, key, "sign") THEN {[params |-> params, id |-> key.id, text |-> text]} ELSE {}
SubtleVerify(params, key, signature, text) ==
  IF Usable(params, key, "verify") THEN {signature = [params |-> params, id |-> key.id, text |-> text]} ELSE {}

\* The bits depend on the two key pairs, whichever of them is private.
SubtleDerive(params, private, bits) ==
  IF Usable(params, private, "deriveBits") THEN {[ids |-> {private.id, params.public.id}, bits |-> bits]} ELSE {}

-----------------------------------------------------------------------------
(* The module. *)

\* An operation of the API answers with a set of at most one value: none if it threw.
Err == [ok |-> FALSE]
CryptoTask(answer) == IF answer = {} THEN Err ELSE [ok |-> TRUE, value |-> CHOOSE v \in answer : TRUE]

\* generateKey: keys of every kind can be exported, and are for what their kind is for.
Generates ==
  CASE algorithm \in {"HMAC", "ECDSA", "RSA-PSS"} -> {"sign", "verify"}
    [] algorithm = "ECDH" -> {"deriveBits"}
    [] OTHER -> {"encrypt", "decrypt"}
GenerateKey(id) == SubtleGenerate(id, TRUE, Generates)

\* importKey: raw, jwk, pkcs8 and spki.
ImportKey(format, material, usages) == CryptoTask(SubtleImport(format, material, TRUE, usages))
ExportKey(format, key) == CryptoTask(SubtleExport(format, key))

\* A wrapped key is the exported one, encrypted.
WrapKey(format, key, wrapper) ==
  CryptoTask(IF "wrapKey" \in wrapper.usages THEN {[key |-> k, by |-> wrapper.id] : k \in SubtleExport(format, key)} ELSE {})
UnwrapKey(format, data, unwrapper, extractable, usages) ==
  CryptoTask(IF "unwrapKey" \in unwrapper.usages /\ data.by = unwrapper.id
             THEN SubtleImport(format, data.key, extractable, usages) ELSE {})

\* Seeded fault: the additional data is not handed on.
CipherParamsAlone(iv, additionalData) ==
  CASE algorithm = "RSA-OAEP" -> [name |-> "RSA-OAEP"]
    [] OTHER -> [name |-> algorithm, iv |-> iv]

\* Both ciphers draw a new initialization vector and return it beside the data; AES-GCM
\* may be given additional data.
CipherParams(iv, additionalData) ==
  CASE algorithm = "AES-GCM" -> [name |-> "AES-GCM", iv |-> iv, additionalData |-> additionalData]
    [] algorithm = "AES-CBC" -> [name |-> "AES-CBC", iv |-> iv]
    [] OTHER -> [name |-> "RSA-OAEP"]
Encrypt(key, iv, text, additionalData) == CryptoTask(SubtleEncrypt(CipherParams(iv, additionalData), key, text))
Decrypt(key, iv, data, additionalData) == CryptoTask(SubtleDecrypt(CipherParams(iv, additionalData), key, data))

\* The hash of ECDSA and the salt length of RSA-PSS are optional.
SignParams(option) ==
  CASE algorithm = "ECDSA" -> [name |-> "ECDSA", hash |-> IF option = "none" THEN "SHA-256" ELSE option]
    [] algorithm = "RSA-PSS" -> [name |-> "RSA-PSS", saltLength |-> IF option = "none" THEN "32" ELSE option]
    [] OTHER -> [name |-> "HMAC"]
Sign(key, text, option) == CryptoTask(SubtleSign(SignParams(option), key, text))
Verify(key, signature, text, option) == CryptoTask(SubtleVerify(SignParams(option), key, signature, text))

DeriveBits(private, public, bits) == CryptoTask(SubtleDerive([name |-> "ECDH", public |-> public], private, bits))

-----------------------------------------------------------------------------

\* The caller's own key, imported for wrapping; keys that were generated cannot wrap.
Wrapper == [id |-> 0, usages |-> {"wrapKey", "unwrapKey"}]

CryptoInit ==
  /\ algorithm \in Algorithms
  /\ keyRing = {} /\ exported = {} /\ wrapped = {} /\ sealed = {} /\ signed = {}
  /\ pairs = 0 /\ uses = 0 /\ drawn = 0

Generate ==
  /\ pairs < MaxPairs /\ pairs' = pairs + 1
  /\ keyRing' = keyRing \cup GenerateKey(pairs')
  /\ UNCHANGED <<algorithm, exported, wrapped, sealed, signed, uses, drawn>>

Used == uses < MaxUses /\ uses' = uses + 1 /\ UNCHANGED <<algorithm, pairs>>
Given(answer, to) == IF answer.ok THEN to \cup {answer.value} ELSE to

ExportStep ==
  /\ Used
  /\ \E k \in keyRing, format \in {"raw", "jwk", "pkcs8", "spki"} :
       \/ exported' = Given(ExportKey(format, k), exported) /\ UNCHANGED wrapped
       \/ wrapped' = Given(WrapKey(format, k, Wrapper), wrapped) /\ UNCHANGED exported
  /\ UNCHANGED <<keyRing, sealed, signed, drawn>>

ImportStep ==
  /\ Used
  /\ \E part \in PartsOf : \E usages \in {Allowed(part), Generates \cap Allowed(part)} :
       \/ \E m \in exported : keyRing' = Given(ImportKey(m.format, m, usages), keyRing)
       \/ \E w \in wrapped, extractable \in BOOLEAN :
            keyRing' = Given(UnwrapKey(w.key.format, w, Wrapper, extractable, usages), keyRing)
  /\ UNCHANGED <<exported, wrapped, sealed, signed, drawn>>

EncryptStep ==
  /\ Used /\ drawn' = drawn + 1
  /\ \E k \in keyRing, text \in Plaintexts, additionalData \in {"none", "x"} :
       LET answer == Encrypt(k, drawn', text, additionalData)
       IN  sealed' = IF answer.ok THEN sealed \cup {[iv |-> drawn', data |-> answer.value, text |-> text,
                                                    additionalData |-> additionalData, id |-> k.id]} ELSE sealed
  /\ UNCHANGED <<keyRing, exported, wrapped, signed>>

SignStep ==
  /\ Used
  /\ \E k \in keyRing, text \in Plaintexts, option \in {"none", "SHA-512", "0"} :
       LET answer == Sign(k, text, option)
       IN  signed' = IF answer.ok THEN signed \cup {[signature |-> answer.value, text |-> text, id |-> k.id, option |-> option]} ELSE signed
  /\ UNCHANGED <<keyRing, exported, wrapped, sealed, drawn>>

CryptoNext == Generate \/ ExportStep \/ ImportStep \/ EncryptStep \/ SignStep

CryptoSpec == CryptoInit /\ [][CryptoNext]_cryptoVars

-----------------------------------------------------------------------------
(* randomInt. *)

Power[n \in 0..MaxRange] == IF n = 0 THEN 1 ELSE Power[n - 1] * ByteSize

\* The whole logarithm of range, rounded up; a range of 1 needs a byte too.
BytesNeeded(range) == CHOOSE n \in 1..MaxRange : Power[n] >= range /\ \A m \in 1..n - 1 : Power[m] < range

\* Beyond ExactBelow only the multiples of a power of two are numbers, one in two up to its
\* double, one in four up to the double of that: the nearest is taken, the even one of two.
Spacing[n \in Nat] == IF n <= ExactBelow THEN 1 ELSE 2 * Spacing[n \div 2]
Rounded(n) ==
  IF n <= ExactBelow THEN n
  ELSE LET unit == Spacing[n]
           down == n \div unit
           rest == 2 * (n % unit)
       IN  unit * (IF rest > unit \/ (rest = unit /\ down % 2 = 1) THEN down + 1 ELSE down)

Limit(range) == LET maxValid == Power[BytesNeeded(range)] IN Rounded(maxValid - (maxValid % range))

\* The most significant of the n bytes comes first.
ValueOf(n, bytes) ==
  LET value[i \in 0..n] == IF i = 0 THEN 0 ELSE Rounded(value[i - 1] * ByteSize + bytes[i]) IN value[n]

\* What a draw of bytes gives, none of them if it is drawn again.
RandomInt(min, max, bytes) ==
  LET value == ValueOf(BytesNeeded(max - min), bytes)
  IN  IF value >= Limit(max - min) THEN {} ELSE {min + (value % (max - min))}

-----------------------------------------------------------------------------

\* Whatever way keys went, exported, imported, wrapped or unwrapped: a text is read again
\* by every key made from the one it was encrypted for, or from its pair, that may decrypt,
\* with the vector and the additional data it has, and by nothing else; a signature is of
\* one text, one pair and one choice of options; what generated keys sealed and signed their
\* pairs can open and verify; two ciphertexts never share a vector.
VaultSound ==
  /\ \A s \in sealed, k \in keyRing, a \in {"none", "x"} :
       LET answer == Decrypt(k, s.iv, s.data, a)
           same == k.id = s.id /\ (a = s.additionalData \/ algorithm # "AES-GCM")
       IN  answer = IF same /\ "decrypt" \in k.usages THEN [ok |-> TRUE, value |-> s.text]
                    ELSE IF algorithm = "AES-CBC" /\ "decrypt" \in k.usages THEN [ok |-> TRUE, value |-> "garbled"] ELSE Err
  /\ \A s \in signed, k \in keyRing, text \in Plaintexts, option \in {"none", "SHA-512", "0"} :
       LET answer == Verify(k, s.signature, text, option)
       IN  /\ answer.ok = ("verify" \in k.usages)
           /\ answer.ok => answer.value = (k.id = s.id /\ text = s.text /\ (option = s.option \/ algorithm = "HMAC"))
  /\ \A s \in sealed : \E k \in keyRing : k.id = s.id /\ "decrypt" \in k.usages
  /\ \A s \in signed : \E k \in keyRing : k.id = s.id /\ "verify" \in k.usages
  /\ algorithm \in {"AES-GCM", "AES-CBC"} => \A s, t \in sealed : s.iv = t.iv => s = t

\* Two key pairs derive the same bits from either side, and other bits than other pairs.
SecretsShared ==
  LET of(part) == {k \in keyRing : k.part = part}
  IN  algorithm = "ECDH" =>
        \A a, c \in of("private"), b, d \in of("public") :
          DeriveBits(a, b, 1).ok /\ (DeriveBits(a, b, 1) = DeriveBits(c, d, 1) <=> {a.id, b.id} = {c.id, d.id})

\* A key that is not extractable leaves by no way, and one that is comes back the same.
KeysReturn ==
  \A k \in keyRing : \A format \in FormatsOf(k.part) :
    LET out == ExportKey(format, k)
    IN  /\ out.ok = k.extractable /\ WrapKey(format, k, Wrapper).ok = k.extractable
        /\ out.ok /\ (k.usages # {} \/ k.part = "public") => ImportKey(format, out.value, k.usages) = [ok |-> TRUE, value |-> k]

\* A key opens what its pair closed and nothing else, whatever ways the keys went.
KeysSound == VaultSound /\ SecretsShared /\ KeysReturn

\* Every number of a range whose draws are exact is as likely as the others, and no draw
\* gives one outside; more than half of the draws give one.
RandomUniform ==
  pairs = 1 /\ uses = 0 => \A range \in 1..MaxRange : Power[BytesNeeded(range)] <= ExactBelow =>
    LET draws == [1..BytesNeeded(range) -> 0..ByteSize - 1]
        of(n) == Cardinality({bytes \in draws : n \in RandomInt(3, 3 + range, bytes)})
    IN  /\ \A n \in 3..2 + range : of(n) = of(3) /\ of(n) > 0
        /\ \A bytes \in draws : RandomInt(3, 3 + range, bytes) \subseteq 3..2 + range
        /\ 2 * range * of(3) > Cardinality(draws)

\* Keys do what they are for and no more, and no number is drawn more often than another.
CryptoSound == KeysSound /\ RandomUniform
=============================================================================
