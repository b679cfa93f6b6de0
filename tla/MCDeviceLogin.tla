----------------------------- MODULE MCDeviceLogin -----------------------------
EXTENDS DeviceLogin

================================================================================
