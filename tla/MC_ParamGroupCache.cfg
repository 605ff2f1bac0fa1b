CONSTANTS
    PGIB = PGIB
    NTP = NTP
    Host = Host
    Fw = Fw
    server = server
    timezone = timezone
    hostname = hostname
    ntp = ntp
    hostname_group = hostname_group
    Pub = Pub
    Priv = Priv
    Rel = Rel
    Enc = Enc
    data_mtu = data_mtu
    data_gateway = data_gateway
    target_build = target_build
    controller_a_ip = controller_a_ip
    controller_user = controller_user
    public_data_network = public_data_network
    private_data_network = private_data_network
    release = release
    storage = storage
    NoGroup = NoGroup
    NoneV = NoneV
    Unset = Unset
    Absent = Absent
    Classes <- MCFlat
    Root = PGIB
    MRO <- MCMRO
    Attrs <- MCAttrs
    Fields <- MCFields
    Groups <- MCGroups
    GroupOf <- MCGroupOf
    Known <- MCKnown
SPECIFICATION Spec
INVARIANT TypeOK ItemsFaithful
