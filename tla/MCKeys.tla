------------------------------- MODULE MCKeys -------------------------------
(* The key functions over a curve of order 32371 (P = 32719), bytes of 16  *)
(* values and hashes of 4 bytes.  Hashes are mixtures of their input.      *)
EXTENDS Keys

Mixture(bytes, start) ==
  LET h[k \in 0..Len(bytes)] ==
        IF k = 0 THEN start ELSE (h[k - 1] * 31 + bytes[k] + 7) % 65521
  IN  (h[Len(bytes)] * 17 + 11) % 65521
(* A hash whose first byte is low, so that nearly all are secrets.         *)
Low(v) == BE(v % 32768, HASH)

MCSha256(s) == Low(Mixture(s, 1))
MCSha256d(s) == Low(Mixture(s, 2))
MCHash160(s) == BE(Mixture(s, 3), HASH160)
MCRmd160(s) == BE(Mixture(s, 4), HASH160)
MCHmac(k, m) == Low(Mixture(k \o m, 5))
MCHmacSha512(k, m) == Low(Mixture(k \o m, 6)) \o BE(Mixture(k \o m, 7), HASH)
MCScrypt(password, salt, len) ==
  SubSeq(Low(Mixture(password \o salt, 8 + len)) \o BE(Mixture(password \o salt, 9 + len), HASH),
         1, len)
MCPbkdf2(words, salt) ==
  BE(Mixture(words \o salt, 10), HASH) \o BE(Mixture(words \o salt, 11), HASH)

(* A permutation of the double words.                                      *)
MCAesEncrypt(k, b) == BE(5 * ValueBE(b) + Mixture(k, 12), 2)
MCAesDecrypt(k, b) == BE(205 * (ValueBE(b) + 65536 - Mixture(k, 12)), 2)

MCPubG == <<3, 5700>>
MCEncodeRatio == <<109, 100>>
MCDecodeRatio == <<926, 1000>>
MCSeedKey == <<1, 2, 3>>
MCMnemonic == <<4, 5>>
MCEntropies == {<<0, 0, 0, 0, 0>>, <<1, 2, 3, 4, 5, 6, 7, 8, 9, 10>>}
MCTyped == {0, 5, 77, 128}
MCPassphrases == {<<3, 1>>}
MCSeedbs == {<<1, 2, 3>>}
MCEntropyWords == {<<6>>}
MCMiniKeys == {<<10, 1, 1, c>> : c \in 6..7}
MCDigests == {<<15, 15, 15, 15>>}
MCJunk == {<<2, 0, 3, 1, 4>>, <<9, 9, 9, 9, 9>>}
=============================================================================
