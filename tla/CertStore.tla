----------------------------- MODULE CertStore -----------------------------
(***************************************************************************)
(* ionemo_drivers/cert_store.py: the certificate file of one device, pinned *)
(* on first use or named by the configuration.  The file outlives the       *)
(* process.  dest.write_text() first creates it empty and then fills it; a  *)
(* full disk, or the end of the process, leaves a torn file behind, and the *)
(* next resolve_verify() only asks whether it exists.  A path the user      *)
(* configured is not looked at before the first login, and either file may  *)
(* be deleted or become unreadable while the driver holds its path.         *)
(***************************************************************************)
EXTENDS Naturals

CONSTANTS
    DiskFaults,   \* the disk may fill up, the process may end while writing
    FileDamage,   \* the file may be deleted or its permissions changed
    CertPaths     \* whether ca_cert_path is configured: the cases to consider

VARIABLES
    explicit,   \* ca_cert_path is configured, and pem is that file
    pem         \* the file: missing, there but not a whole PEM that can be
                \* read, whole and readable

cert == <<explicit, pem>>

PemStates == {"absent", "broken", "pinned"}

PemTypeOK == pem \in PemStates

\* A device nobody has pinned yet, or a file of the user's in any condition.
CertInit ==
    /\ explicit \in CertPaths
    /\ pem \in IF explicit THEN PemStates ELSE {"absent"}

\* pinned_path.exists()
Exists == pem # "absent"

\* configure_session_tls() can read the file and decode the PEM.
Decodes == pem = "pinned"

\* dest.parent.mkdir() and the open() inside dest.write_text().
CreateFile == pem' = "broken" /\ UNCHANGED explicit

\* The write() and close() inside dest.write_text(): the bytes are lost when
\* the file was deleted in the meantime.
WriteFile ==
    /\ pem' = IF pem = "broken" THEN "pinned" ELSE pem
    /\ UNCHANGED explicit

\* An OSError of either: _pin_cert() returns False, the file stays as it is.
PinFails == DiskFaults /\ UNCHANGED cert

\* Somebody else deletes the file or takes the right to read it away.
Damage ==
    /\ FileDamage /\ Exists
    /\ pem' \in {"absent", "broken"} \ {pem}
    /\ UNCHANGED explicit
=============================================================================
