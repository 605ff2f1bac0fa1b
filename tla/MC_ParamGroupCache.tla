------------------------- MODULE MC_ParamGroupCache -------------------------
(* NTP (server, timezone in group ntp), Hostname (hostname in group      *)
(* hostname), Firewall (no attributes), and the schema classes of          *)
(* inputs.py whose attribute names meet in several                          *)
(* groups: PublicDataNetwork and PrivateDataNetwork both declare data_mtu  *)
(* and data_gateway, in their own groups and in a different order; Release *)
(* takes target_build from ReleaseParams (group release); StorageEnclosure *)
(* takes controller_a_ip and controller_user from StorageEnclosureParams  *)
(* (group storage).  The registry lacks storage/controller_user here, so  *)
(* that StorageEnclosure raises KeyError on its second field after it has *)
(* cached its first, and later calls start from a half-filled cache.  The *)
(* hierarchy is flat, as in the code.                                      *)
EXTENDS ParamGroupCache

CONSTANTS PGIB, NTP, Host, Fw, Pub, Priv, Rel, Enc,
          server, timezone, hostname, ntp, hostname_group,
          data_mtu, data_gateway, target_build, controller_a_ip, controller_user,
          public_data_network, private_data_network, release, storage

MCFlat == {PGIB, NTP, Host, Fw, Pub, Priv, Rel, Enc}

MCMRO == [c \in MCFlat |->
            IF c = PGIB THEN << PGIB >>
            ELSE << c, PGIB >>]

MCAttrs == {server, timezone, hostname, data_mtu, data_gateway, target_build, controller_a_ip, controller_user}

MCFields == [c \in MCFlat |->
               IF c = NTP THEN << server, timezone >>
               ELSE IF c = Host THEN << hostname >>
               ELSE IF c = Pub THEN << data_gateway, data_mtu >>
               ELSE IF c = Priv THEN << data_mtu, data_gateway >>
               ELSE IF c = Rel THEN << target_build >>
               ELSE IF c = Enc THEN << controller_a_ip, controller_user >>
               ELSE << >>]

MCGroups == {ntp, hostname_group, public_data_network, private_data_network, release, storage}

MCGroupOf == [c \in MCFlat |-> [a \in MCAttrs |->
                IF c = NTP THEN ntp
                ELSE IF c = Host THEN hostname_group
                ELSE IF c = Pub THEN public_data_network
                ELSE IF c = Priv THEN private_data_network
                ELSE IF c = Rel THEN release
                ELSE IF c = Enc THEN storage
                ELSE NoGroup]]

MCKnown == {FullPath(g, a) : g \in MCGroups, a \in MCAttrs} \ {<< storage, controller_user >>}
=============================================================================
