------------------------- MODULE MCDeviceRegistry -------------------------
EXTENDS DeviceRegistry

MCCapability == {"DeviceOpen", "DeviceCall", "SecurityManage"}
MCOperation == {"Read", "Write"}

Device(id, lifecycle, required, operations, in_len, out_len) ==
  [id |-> id, lifecycle |-> lifecycle, required_capabilities |-> required,
   supported_operations |-> operations,
   max_input_len |-> in_len, max_output_len |-> out_len]

\* Available and unavailable devices, plain and guarded ones, three ids and id 0.
MCDescriptor ==
  {Device(id, lifecycle, required, operations, 1, 0) :
     id \in {0, 1, 2, 3}, lifecycle \in {"Registered", "Suspended"},
     required \in {{}, {"DeviceCall", "SecurityManage"}},
     operations \in {{"Read"}, {"Read", "Write"}}}
===========================================================================
